---- MODULE Spec2Model ----
(***************************************************************************)
(* Garment role resolution and outfit scoring engine of the Clazzy         *)
(* backend (backend/outfit_recommender_v2.py), with the harmony score of   *)
(* backend/color_harmony.py.                                               *)
(*                                                                         *)
(* Numbers: every weight, confidence and score of the source is a float    *)
(* with at most two decimals; the model keeps them as integers in          *)
(* hundredths (3.0 -> 300, 0.15 -> 15).  Aspect ratios and hues are exact  *)
(* rationals compared by cross-multiplication.  Text is kept as TLA+       *)
(* strings and searched character by character.                            *)
(***************************************************************************)
EXTENDS Integers, Sequences, FiniteSets, TLC

VARIABLES
    pc,             \* where the caller is
    garments,       \* the garment list of the request
    occasion,       \* the occasion of the request
    max_outfits,    \* the maximum number of outfits asked for
    tops,           \* hard_split_wardrobe's first list
    bottoms,        \* hard_split_wardrobe's second list
    outfits,        \* the list the call returned
    single,         \* one garment dictionary handed to the resolver
    normalized,     \* <<the NormalizedGarment built from it>>
    candidate,      \* an outfit handed to validate_outfit
    verdict,        \* <<what validate_outfit returned>>
    colors,         \* two colors handed to the harmony classifier
    classified,     \* <<result for (color 1, color 2), result for (2, 1)>>
    recommender,    \* the module global _recommender_v2
    history,        \* the calls this process has served, oldest first
    requests        \* the calls in progress at the same time, one per thread

vars == <<pc, garments, occasion, max_outfits, tops, bottoms, outfits,
          single, normalized, candidate, verdict, colors, classified,
          recommender, history, requests>>

requestVars == <<garments, occasion, max_outfits, tops, bottoms, outfits>>
resolveVars == <<single, normalized>>
validateVars == <<candidate, verdict>>
harmonyVars == <<colors, classified>>
processVars == <<recommender, history, requests>>

(***************************************************************************)
(* Bounds of the model.                                                    *)
(***************************************************************************)
MaxGarments == 3
MaxResults == 2
MaxCalls == 3

(***************************************************************************)
(* Text helpers: str.lower(), "k in s", str.replace(c, ""), str.lstrip.    *)
(***************************************************************************)
UpperChars == "ABCDEFGHIJKLMNOPQRSTUVWXYZ"
LowerChars == "abcdefghijklmnopqrstuvwxyz"

CharAt(s, i) == SubSeq(s, i, i)

LowerChar(c) ==
    IF \E i \in 1..Len(UpperChars) : CharAt(UpperChars, i) = c
    THEN LET i == CHOOSE j \in 1..Len(UpperChars) : CharAt(UpperChars, j) = c
         IN  CharAt(LowerChars, i)
    ELSE c

RECURSIVE Lower(_)
Lower(s) == IF Len(s) = 0 THEN ""
            ELSE LowerChar(CharAt(s, 1)) \o Lower(SubSeq(s, 2, Len(s)))

RECURSIVE RemoveChar(_, _)
RemoveChar(s, c) ==
    IF Len(s) = 0 THEN ""
    ELSE (IF CharAt(s, 1) = c THEN "" ELSE CharAt(s, 1))
         \o RemoveChar(SubSeq(s, 2, Len(s)), c)

RECURSIVE LStrip(_, _)
LStrip(s, c) == IF Len(s) > 0 /\ CharAt(s, 1) = c
                THEN LStrip(SubSeq(s, 2, Len(s)), c)
                ELSE s

Contains(s, k) ==
    \E i \in 1..(Len(s) - Len(k) + 1) : SubSeq(s, i, i + Len(k) - 1) = k

\* index of the first pattern of the list that occurs in s, 0 if none
FirstMatch(patterns, s) ==
    IF \E i \in 1..Len(patterns) : Contains(s, patterns[i])
    THEN CHOOSE i \in 1..Len(patterns) :
            /\ Contains(s, patterns[i])
            /\ \A j \in 1..(i - 1) : ~Contains(s, patterns[j])
    ELSE 0

(***************************************************************************)
(* GarmentType and the alias table.                                        *)
(***************************************************************************)
TOP == "top"
BOTTOM == "bottom"
UNKNOWN == "unknown"

GarmentType == {TOP, BOTTOM, UNKNOWN}

\* the keys of TYPE_ALIASES in insertion order
TYPE_ALIASES ==
    <<"top", "shirt", "blouse", "t-shirt", "tshirt", "t_shirt", "tee", "polo",
      "sweater", "hoodie", "jacket", "coat", "blazer", "cardigan", "tank",
      "tanktop", "vest", "tunic", "crop", "croptop",
      "bottom", "pants", "pant", "jeans", "jean", "trousers", "trouser",
      "shorts", "short", "skirt", "leggings", "legging", "joggers", "jogger",
      "chinos", "chino", "cargo", "slacks", "culottes">>

NumTopAliases == 20

AliasType(i) == IF i <= NumTopAliases THEN TOP ELSE BOTTOM

\* type_str.lower().strip() without "-", "_" and " "
CleanType(raw_type) ==
    RemoveChar(RemoveChar(RemoveChar(Lower(raw_type), "-"), "_"), " ")

\* the partial match: the first alias, in insertion order, found in cleaned
PartialAlias(m) == IF m = 0 THEN UNKNOWN ELSE AliasType(m)

\* mutant: the direct lookup only, no partial match
LookupAliasExact(cleaned) ==
    IF \E i \in 1..Len(TYPE_ALIASES) : TYPE_ALIASES[i] = cleaned
    THEN AliasType(CHOOSE i \in 1..Len(TYPE_ALIASES) : TYPE_ALIASES[i] = cleaned)
    ELSE UNKNOWN

LookupAlias(cleaned) ==
    IF \E i \in 1..Len(TYPE_ALIASES) : TYPE_ALIASES[i] = cleaned
    THEN AliasType(CHOOSE i \in 1..Len(TYPE_ALIASES) : TYPE_ALIASES[i] = cleaned)
    ELSE PartialAlias(FirstMatch(TYPE_ALIASES, cleaned))

normalize_type(raw_type) ==
    IF raw_type = "" THEN UNKNOWN ELSE LookupAlias(CleanType(raw_type))

(***************************************************************************)
(* Garment records.  An input garment is the caller's dictionary; the      *)
(* records of the model carry the keys name, type, confidence, width,      *)
(* height, hex and image.  An absent key is "" for text, 0 for a dimension *)
(* and NoConfidence for the confidence (dict.get then supplies the         *)
(* default).  The keys id, filename, imageUrl, url, color and              *)
(* dominant_color are absent from every record of the model.               *)
(***************************************************************************)
NoConfidence == -1

Confidence(g) == IF g.confidence = NoConfidence THEN 50 ELSE g.confidence

Min(a, b) == IF a < b THEN a ELSE b
Max(a, b) == IF a > b THEN a ELSE b
Abs(a) == IF a < 0 THEN -a ELSE a

\* s.split(sep)[-1] and s.split(sep)[0]
RECURSIVE AfterLast(_, _)
AfterLast(s, sep) ==
    IF Contains(s, sep)
    THEN LET k == CHOOSE i \in 1..Len(s) :
                     CharAt(s, i) = sep /\ \A j \in 1..(i - 1) : CharAt(s, j) # sep
         IN  AfterLast(SubSeq(s, k + 1, Len(s)), sep)
    ELSE s

BeforeFirst(s, sep) ==
    IF Contains(s, sep)
    THEN LET k == CHOOSE i \in 1..Len(s) :
                     CharAt(s, i) = sep /\ \A j \in 1..(i - 1) : CharAt(s, j) # sep
         IN  SubSeq(s, 1, k - 1)
    ELSE s

guess_type_from_filename(filename) ==
    IF filename = "" THEN UNKNOWN
    ELSE LET lower == Lower(filename)
             top_patterns == <<"shirt", "tee", "blouse", "top", "polo", "sweater",
                               "hoodie", "jacket", "blazer", "coat", "cardigan",
                               "vest">>
             bottom_patterns == <<"pant", "jean", "trouser", "short", "skirt",
                                  "bottom", "cargo", "chino", "legging", "jogger">>
         IN  IF FirstMatch(top_patterns, lower) # 0 THEN TOP
             ELSE IF FirstMatch(bottom_patterns, lower) # 0 THEN BOTTOM
             ELSE UNKNOWN

detect_structural_features(name, image_url) ==
    LET text == Lower(name \o " " \o image_url)
        top_features == <<"sleeve", "collar", "button", "neck", "v-neck", "crew",
                          "polo", "hoodie", "hood", "zip", "zipper", "pocket",
                          "long-sleeve", "short-sleeve", "sleeveless">>
        bottom_features == <<"waist", "belt-loop", "beltloop", "inseam", "cuff",
                             "leg">>
    IN  IF FirstMatch(top_features, text) # 0 THEN TOP
        ELSE IF FirstMatch(bottom_features, text) # 0 THEN BOTTOM
        ELSE UNKNOWN

(***************************************************************************)
(* determine_visual_type(None, width, height) as hard_split_wardrobe calls *)
(* it: with dimensions the 1.2 aspect threshold decides; without them the  *)
(* PIL branch opens None, fails, and the except clause returns UNKNOWN.    *)
(***************************************************************************)
determine_visual_type(width, height) ==
    IF width > 0 /\ height > 0
    THEN (IF 10 * height < 12 * width THEN TOP ELSE BOTTOM)
    ELSE UNKNOWN

(***************************************************************************)
(* The four signals of resolve_garment_type, each a sequence of at most    *)
(* one <<type, weight>> vote, and the weighted vote itself.                *)
(***************************************************************************)
\* mutant: the band is cut where the tie-break cuts it, at 1.3
ShapeSignalCutAtTieBreak(width, height) ==
    IF width > 0 /\ height > 0
    THEN IF 10 * height > 14 * width THEN <<<<BOTTOM, 300>>>>
         ELSE IF height < width THEN <<<<TOP, 300>>>>
         ELSE IF 10 * height > 13 * width THEN <<<<BOTTOM, 150>>>>
         ELSE <<<<TOP, 150>>>>
    ELSE <<>>

ShapeSignal(width, height) ==
    IF width > 0 /\ height > 0
    THEN IF 10 * height > 14 * width THEN <<<<BOTTOM, 300>>>>
         ELSE IF height < width THEN <<<<TOP, 300>>>>
         ELSE IF 10 * height > 12 * width THEN <<<<BOTTOM, 150>>>>
         ELSE <<<<TOP, 150>>>>
    ELSE <<>>

StructureVote(structure_type) ==
    IF structure_type # UNKNOWN THEN <<<<structure_type, 250>>>> ELSE <<>>

StructureSignal(name, image_url) ==
    StructureVote(detect_structural_features(name, image_url))

\* the name first; the last path segment of the URL when the name says nothing
FilenameFallback(name_type, image_url) ==
    IF name_type = UNKNOWN /\ image_url # ""
    THEN guess_type_from_filename(BeforeFirst(AfterLast(image_url, "/"), "?"))
    ELSE name_type

FilenameVote(filename_type) ==
    IF filename_type # UNKNOWN THEN <<<<filename_type, 200>>>> ELSE <<>>

FilenameSignal(name, image_url) ==
    FilenameVote(FilenameFallback(guess_type_from_filename(name), image_url))

\* mutant: the label of the upstream classifier is not heard
MLVoteSilent(ml_type, confidence) == <<>>

MLVote(ml_type, confidence) ==
    IF ml_type # UNKNOWN THEN <<<<ml_type, Min(100, confidence)>>>> ELSE <<>>

MLSignal(raw_type, confidence) == MLVote(normalize_type(raw_type), confidence)

RECURSIVE WeightOf(_, _)
WeightOf(signals, t) ==
    IF signals = <<>> THEN 0
    ELSE (IF Head(signals)[1] = t THEN Head(signals)[2] ELSE 0)
         + WeightOf(Tail(signals), t)

Signals(garment, width, height) ==
    ShapeSignal(width, height) \o StructureSignal(garment.name, garment.image)
        \o FilenameSignal(garment.name, garment.image)
        \o MLSignal(garment.type, Confidence(garment))

\* mutant: with no signal the resolver hands back the classifier's UNKNOWN
NoSignalsUnknown == UNKNOWN

NoSignalsDefault == TOP

\* mutant: the strongest single signal decides, the weights are not summed
DecideByStrongest(signals, width, height) ==
    IF signals = <<>> THEN NoSignalsDefault
    ELSE signals[CHOOSE i \in 1..Len(signals) :
                     \A j \in 1..Len(signals) : signals[j][2] <= signals[i][2]][1]

Decide(signals, width, height) ==
    IF signals = <<>> THEN NoSignalsDefault
    ELSE LET top_weight == WeightOf(signals, TOP)
             bottom_weight == WeightOf(signals, BOTTOM)
         IN  IF bottom_weight > top_weight THEN BOTTOM
             ELSE IF top_weight > bottom_weight THEN TOP
             ELSE IF width > 0 /\ height > 0 /\ 10 * height > 13 * width
                  THEN BOTTOM
                  ELSE TOP

resolve_garment_type(garment, width0, height0) ==
    LET width == IF width0 = 0 THEN garment.width ELSE width0
        height == IF height0 = 0 THEN garment.height ELSE height0
    IN  Decide(Signals(garment, width, height), width, height)

(***************************************************************************)
(* calculate_pant_likeness_score, in hundredths.                           *)
(***************************************************************************)
calculate_pant_likeness_score(garment) ==
    LET width == garment.width
        height == garment.height
        name == Lower(garment.name)
        image_url == Lower(garment.image)
        aspect == IF width > 0 /\ height > 0
                  THEN IF 10 * height > 15 * width THEN 50
                       ELSE IF 10 * height > 13 * width THEN 30
                       ELSE IF 10 * height > 11 * width THEN 10
                       ELSE 0
                  ELSE 0
        bottom_keywords == <<"pant", "jean", "trouser", "short", "skirt",
                             "bottom", "cargo", "chino">>
        top_keywords == <<"shirt", "tee", "blouse", "top", "polo", "sweater",
                          "hoodie", "jacket">>
        bottom_hit == \E i \in 1..Len(bottom_keywords) :
                         Contains(name, bottom_keywords[i])
                         \/ Contains(image_url, bottom_keywords[i])
        has_top_keyword == \E i \in 1..Len(top_keywords) :
                              Contains(name, top_keywords[i])
                              \/ Contains(image_url, top_keywords[i])
    IN  Min(100, aspect + (IF bottom_hit THEN 40 ELSE 0)
                        + (IF has_top_keyword THEN 0 ELSE 10))

(***************************************************************************)
(* Color math.  hex_to_hsv: only the hue reaches the harmony classifier;   *)
(* it is kept as the exact rational <<numerator, denominator>> of degrees. *)
(* colorsys.rgb_to_hsv is followed on the 0..255 channel values (a common  *)
(* factor 1/255 cancels in every quotient it takes).                       *)
(***************************************************************************)
HexDigits == "0123456789abcdef"

InvalidInt == 999

HexDigitValue(c) ==
    LET l == LowerChar(c)
    IN  IF \E i \in 1..16 : CharAt(HexDigits, i) = l
        THEN (CHOOSE i \in 1..16 : CharAt(HexDigits, i) = l) - 1
        ELSE InvalidInt

\* int(two_chars, 16): two hex digits, or one digit with a sign or a blank
IntOfPair(a, b, va, vb) ==
    IF va # InvalidInt /\ vb # InvalidInt THEN 16 * va + vb
    ELSE IF a \in {"+", " "} /\ vb # InvalidInt THEN vb
    ELSE IF a = "-" /\ vb # InvalidInt THEN -vb
    ELSE IF b = " " /\ va # InvalidInt THEN va
    ELSE InvalidInt

ParseHexPair(s) ==
    IntOfPair(CharAt(s, 1), CharAt(s, 2),
              HexDigitValue(CharAt(s, 1)), HexDigitValue(CharAt(s, 2)))

Max3(a, b, c) == Max(a, Max(b, c))
Min3(a, b, c) == Min(a, Min(b, c))

GrayHue == <<0, 1>>

\* hue in degrees of colorsys.rgb_to_hsv(r/255, g/255, b/255), times 360
rgb_to_hue(r, g, b) ==
    LET maxc == Max3(r, g, b)
        minc == Min3(r, g, b)
        delta == maxc - minc
        h6 == IF r = maxc THEN g - b
              ELSE IF g = maxc THEN 2 * delta + b - r
              ELSE 4 * delta + r - g
    IN  IF minc = maxc THEN <<0, 1>>
        ELSE <<(60 * h6) % (360 * delta), delta>>

\* what hex_to_hsv is when an exception other than ValueError leaves it
ZeroDivisionError == <<0, 0>>

\* colorsys.rgb_to_hsv divides by maxc once minc differs from it
DividesByZero(r, g, b) == Max3(r, g, b) = 0 /\ Min3(r, g, b) # 0

\* a ValueError of int() anywhere in the try block gives the default gray;
\* the ZeroDivisionError of colorsys is not caught
HueOfChannels(r, g, b) ==
    IF InvalidInt \in {r, g, b} THEN GrayHue
    ELSE IF DividesByZero(r, g, b) THEN ZeroDivisionError
    ELSE rgb_to_hue(r, g, b)

HueOfStripped(hex_color) ==
    IF Len(hex_color) # 6 THEN GrayHue
    ELSE HueOfChannels(ParseHexPair(SubSeq(hex_color, 1, 2)),
                       ParseHexPair(SubSeq(hex_color, 3, 4)),
                       ParseHexPair(SubSeq(hex_color, 5, 6)))

hex_to_hsv(hex_color) == HueOfStripped(LStrip(hex_color, "#"))

\* mutant: the difference keeps its sign
SignedHueDiff(h1, h2) == h1[1] * h2[2] - h2[1] * h1[2]

\* |h1 - h2| as a numerator over the common denominator h1[2] * h2[2]
HueDiff(h1, h2) == Abs(h1[1] * h2[2] - h2[1] * h1[2])

\* diff = min(diff, 360 - diff), over the denominator q
WrapDiff(diff, q) == Min(diff, 360 * q - diff)

\* mutant: Complementary checked first, 160..200 degrees, base score 0.95
ClassifyComplementaryFirst(diff, q) ==
    IF 160 * q <= diff /\ diff <= 200 * q THEN <<"Complementary", 95>>
    ELSE IF diff < 15 * q THEN <<"Monochromatic", 95>>
    ELSE IF diff < 40 * q THEN <<"Analogous", 90>>
    ELSE IF Abs(diff - 120 * q) < 15 * q THEN <<"Triadic", 85>>
    ELSE <<"Neutral", 70>>

\* the category and base score of a hue difference diff / q
ClassifyDiff(diff, q) ==
    IF diff < 15 * q THEN <<"Monochromatic", 95>>
    ELSE IF diff < 40 * q THEN <<"Analogous", 90>>
    ELSE IF Abs(diff - 120 * q) < 15 * q THEN <<"Triadic", 85>>
    ELSE IF Abs(diff - 180 * q) < 15 * q THEN <<"Complementary", 90>>
    ELSE <<"Neutral", 70>>

HarmonyOfHues(h1, h2) ==
    ClassifyDiff(WrapDiff(HueDiff(h1, h2), h1[2] * h2[2]), h1[2] * h2[2])

\* <<category, base score>>, or <<"ZeroDivisionError", 0>> when the
\* conversion of either color raised
calculate_color_harmony(hex1, hex2) ==
    IF ZeroDivisionError \in {hex_to_hsv(hex1), hex_to_hsv(hex2)}
    THEN <<"ZeroDivisionError", 0>>
    ELSE HarmonyOfHues(hex_to_hsv(hex1), hex_to_hsv(hex2))

(***************************************************************************)
(* color_harmony.py: ColorHarmonyRecommender.calculate_harmony, the score  *)
(* in ten-thousandths.  hex_to_rgb has no length check and no except       *)
(* clause: it reads the first three pairs of whatever follows the "#" and  *)
(* a ValueError of int() leaves the call.  A result is <<"ok", score>> or  *)
(* <<"ValueError", 0>>.                                                    *)
(***************************************************************************)
\* s[a:b] for 0 <= a <= b, as 1-based SubSeq bounds
PySlice(s, a, b) == SubSeq(s, Min(a + 1, Len(s) + 1), Min(b, Len(s)))

\* int(s, 16) of a slice of at most two characters
IntBase16(s) ==
    IF Len(s) = 0 THEN InvalidInt
    ELSE IF Len(s) = 1 THEN HexDigitValue(s)
    ELSE ParseHexPair(s)

RgbOfStripped(hex_color) ==
    <<IntBase16(PySlice(hex_color, 0, 2)), IntBase16(PySlice(hex_color, 2, 4)),
      IntBase16(PySlice(hex_color, 4, 6))>>

hex_to_rgb(hex_color) == RgbOfStripped(LStrip(hex_color, "#"))

\* <<hue, saturation, value>>: the hue as in rgb_to_hue, the saturation as
\* <<delta, maxc>> (0 for black and grays), the value as maxc of 255
rgb_to_hsv(rgb) ==
    <<rgb_to_hue(rgb[1], rgb[2], rgb[3]),
      IF Max3(rgb[1], rgb[2], rgb[3]) = 0 THEN <<0, 1>>
      ELSE <<Max3(rgb[1], rgb[2], rgb[3]) - Min3(rgb[1], rgb[2], rgb[3]),
             Max3(rgb[1], rgb[2], rgb[3])>>,
      Max3(rgb[1], rgb[2], rgb[3])>>

\* hue_diff = abs(h1 - h2); if hue_diff > 180: hue_diff = 360 - hue_diff
LegacyHueDiff(diff, q) == IF diff > 180 * q THEN 360 * q - diff ELSE diff

PatternScore(diff, q) ==
    IF 160 * q <= diff /\ diff <= 200 * q THEN 9500
    ELSE IF \/ 105 * q <= diff /\ diff <= 135 * q
            \/ 225 * q <= diff /\ diff <= 255 * q THEN 9000
    ELSE IF diff <= 45 * q THEN 8500
    ELSE IF 130 * q <= diff /\ diff <= 170 * q THEN 8000
    ELSE IF diff <= 60 * q THEN 7500
    ELSE IF 60 * q <= diff /\ diff <= 90 * q THEN 6500
    ELSE 5000

\* sat_diff > 50 or val_diff > 50, on the 0..100 scales
ExtremeDifference(s1, v1, s2, v2) ==
    \/ 2 * Abs(s1[1] * s2[2] - s2[1] * s1[2]) > s1[2] * s2[2]
    \/ 2 * 100 * Abs(v1 - v2) > 100 * 255

\* s1 < 20 or s2 < 20
Neutral(s1, s2) == 100 * s1[1] < 20 * s1[2] \/ 100 * s2[1] < 20 * s2[2]

Penalized(score, extreme) == IF extreme THEN (score * 85) \div 100 ELSE score

NeutralBonus(score, neutral) == IF neutral THEN Max(score, 8000) ELSE score

HarmonyOfHsv(a, b) ==
    NeutralBonus(
        Penalized(PatternScore(LegacyHueDiff(HueDiff(a[1], b[1]), a[1][2] * b[1][2]),
                               a[1][2] * b[1][2]),
                  ExtremeDifference(a[2], a[3], b[2], b[3])),
        Neutral(a[2], b[2]))

HarmonyOfRgb(rgb1, rgb2) ==
    IF InvalidInt \in {rgb1[1], rgb1[2], rgb1[3], rgb2[1], rgb2[2], rgb2[3]}
    THEN <<"ValueError", 0>>
    ELSE <<"ok", HarmonyOfHsv(rgb_to_hsv(rgb1), rgb_to_hsv(rgb2))>>

calculate_harmony(hex_color1, hex_color2) ==
    HarmonyOfRgb(hex_to_rgb(hex_color1), hex_to_rgb(hex_color2))

OCCASION_BOOSTS(occ) ==
    CASE occ \in {"formal", "office", "business"} -> {"Monochromatic", "Analogous"}
      [] occ = "casual" -> {"Analogous", "Triadic", "Neutral"}
      [] occ = "party" -> {"Complementary", "Triadic"}
      [] occ = "date" -> {"Analogous", "Complementary"}
      [] occ = "college" -> {"Neutral", "Analogous"}
      [] occ = "sports" -> {"Triadic", "Complementary"}
      [] OTHER -> {}

(***************************************************************************)
(* The wardrobes the requests are drawn from: what a garment looks like    *)
(* (name, width, height) combined with what the upstream classifier and    *)
(* color extractor said about it (type, confidence, hex).                  *)
(***************************************************************************)
Looks ==
    {<<"", 0, 0>>,              \* nothing to go on
     <<"shirt.jpg", 4, 3>>,     \* wide, top keyword
     <<"pants.jpg", 2, 3>>,     \* tall, bottom keyword
     <<"tee.jpg", 10, 14>>,     \* top keyword on a tall-ish image
     <<"", 20, 23>>}            \* nameless, slightly taller than wide

Upstream ==
    {<<"", NoConfidence, "">>,
     <<"bottom", 95, "#ff0000">>,
     <<"T-Shirt", 40, "#00FFFF">>}

Garment(l, u) ==
    [name |-> l[1], width |-> l[2], height |-> l[3],
     type |-> u[1], confidence |-> u[2], hex |-> u[3], image |-> ""]

Wardrobe == {Garment(l, u) : l \in Looks, u \in Upstream}

(***************************************************************************)
(* Garments that carry a label and nothing else: an identifier without a   *)
(* keyword, no dimensions, no URL.  UpperLabels normalize to top,           *)
(* LowerLabels to bottom.                                                  *)
(***************************************************************************)
UpperLabels == {"shirt", "top", "Polo"}
LowerLabels == {"jeans", "bottom", "Shorts"}
LabelConfidences == {95, 90, NoConfidence, 0}

Labelled(id, labels, hexes) ==
    {Garment(<<id, 0, 0>>, <<t, c, h>>) :
        t \in labels, c \in LabelConfidences, h \in hexes}

UpperLabelled == Labelled("A", UpperLabels, {"#1F3C88", ""})
LowerLabelled == Labelled("B", LowerLabels, {"#000000", ""})

(***************************************************************************)
(* A closet of lower garments, by label, by name or by both, with one      *)
(* shirt.  Both recommenders are asked about lists drawn from it.          *)
(***************************************************************************)
Closet ==
    {Garment(<<"pants.jpg", 2, 3>>, <<"bottom", 95, "#ff0000">>),
     Garment(<<"Pants 1", 0, 0>>, <<"pants", 95, "#000000">>),
     Garment(<<"Jeans 1", 0, 0>>, <<"jeans", 90, "#4169e1">>),
     Garment(<<"trousers", 0, 0>>, <<"Shorts", NoConfidence, "">>),
     Garment(<<"pants.jpg", 2, 3>>, <<"T-Shirt", 40, "#00FFFF">>),
     Garment(<<"Blue Shirt", 0, 0>>, <<"top", 95, "#1f3c88">>)}

(***************************************************************************)
(* Garments that give the resolver nothing: no dimensions, no URL, a name  *)
(* without a keyword (or no name), no label or a label the alias table     *)
(* does not know.  One shirt, which has every signal, goes with them.      *)
(***************************************************************************)
BlankNames == {"", "a", "b"}

BlankUpstream == {<<"", NoConfidence, "">>, <<"hat", 95, "#ff0000">>}

NoSignalWardrobe ==
    {Garment(<<n, 0, 0>>, u) : n \in BlankNames, u \in BlankUpstream}
        \cup {Garment(<<"shirt.jpg", 4, 3>>, <<"T-Shirt", 40, "#00FFFF">>)}

(***************************************************************************)
(* A shirt and a pair of pants in every color the extractor can hand over: *)
(* none, a well-formed one, one of five digits, one with letters that are  *)
(* no hex digits, and two in which int() reads a sign.                     *)
(***************************************************************************)
ColorLooks == {<<"shirt.jpg", 4, 3>>, <<"pants.jpg", 2, 3>>}

ColorHexes == {"", "#ff0000", "#12345", "#gggggg", "-10000", "+1+2+3"}

ColorWardrobe ==
    {Garment(l, <<"", NoConfidence, h>>) : l \in ColorLooks, h \in ColorHexes}

\* the garments whose per-garment results are tabulated
Tabulated ==
    Wardrobe \cup UpperLabelled \cup LowerLabelled \cup Closet \cup NoSignalWardrobe
        \cup ColorWardrobe

Occasions == {"party", "picnic"}

(***************************************************************************)
(* Per-garment and per-color results, tabulated once over the wardrobe so  *)
(* that the text scans are not repeated in every state (f @@ <<>> is f,    *)
(* stored as a table).                                                     *)
(***************************************************************************)
NormalizedTypes == [g \in Tabulated |-> normalize_type(g.type)] @@ <<>>

ResolvedTypes ==
    [g \in Tabulated |-> resolve_garment_type(g, g.width, g.height)] @@ <<>>

PantLikeness == [g \in Tabulated |-> calculate_pant_likeness_score(g)] @@ <<>>

WardrobeHexes == {"#808080"} \cup {g.hex : g \in {w \in Tabulated : w.hex # ""}}

Harmonies == [h \in WardrobeHexes \X WardrobeHexes |->
                 calculate_color_harmony(h[1], h[2])] @@ <<>>

(***************************************************************************)
(* NormalizedGarment.  original is the caller's dictionary; pos is the     *)
(* input position that dictionary came from (the identity of the Python    *)
(* object, which the dataclass' generated __eq__ does not look at).        *)
(***************************************************************************)
ItemName(g, i) == IF g.name # "" THEN g.name ELSE "item_" \o ToString(i - 1)

HexOf(g) == IF g.hex # "" THEN g.hex ELSE "#808080"

NormalizedGarment(g, i) ==
    [name |-> ItemName(g, i),
     type |-> IF g \in Tabulated THEN NormalizedTypes[g] ELSE normalize_type(g.type),
     visual_type |-> determine_visual_type(g.width, g.height),
     verified_type |-> IF g \in Tabulated THEN ResolvedTypes[g]
                       ELSE resolve_garment_type(g, g.width, g.height),
     color |-> "Unknown",
     hex_color |-> HexOf(g),
     confidence |-> Confidence(g),
     image_url |-> g.image,
     original |-> g,
     pos |-> i]

\* dataclass equality: field by field, the dictionary by value
SameGarment(a, b) == [a EXCEPT !.pos = 0] = [b EXCEPT !.pos = 0]

\* mutant: a filter in place of list.remove drops every equal element
ListRemoveAll(list, x) == SelectSeq(list, LAMBDA e : ~SameGarment(e, x))

\* list.remove(x): drops the first element equal to x
ListRemove(list, x) ==
    LET k == CHOOSE i \in 1..Len(list) :
                 /\ SameGarment(list[i], x)
                 /\ \A j \in 1..(i - 1) : ~SameGarment(list[j], x)
    IN  SubSeq(list, 1, k - 1) \o SubSeq(list, k + 1, Len(list))

\* list.sort(key=..., reverse=True) on <<item, key>> pairs: stable, descending
RECURSIVE InsertDesc(_, _)
InsertDesc(sorted, x) ==
    IF sorted = <<>> THEN <<x>>
    ELSE IF Head(sorted)[2] >= x[2]
         THEN <<Head(sorted)>> \o InsertDesc(Tail(sorted), x)
         ELSE <<x>> \o sorted

RECURSIVE SortDesc(_)
SortDesc(pairs) ==
    IF pairs = <<>> THEN <<>>
    ELSE InsertDesc(SortDesc(SubSeq(pairs, 1, Len(pairs) - 1)), pairs[Len(pairs)])

\* mutant: the forced copy keeps the role the resolver gave
ForcedBottomKeepsRole(t, confidence) == [t EXCEPT !.confidence = confidence]

ForcedBottom(t, confidence) ==
    [t EXCEPT !.verified_type = BOTTOM, !.confidence = confidence]

PantLikenessOf(g) ==
    IF g \in Tabulated THEN PantLikeness[g] ELSE calculate_pant_likeness_score(g)

\* tops.sort(key=lambda x: x[1], reverse=True) on (garment, pant score) pairs
TopScores(tops0) ==
    SortDesc([i \in 1..Len(tops0) |-> <<tops0[i], PantLikenessOf(tops0[i].original)>>])

\* the most pant-like top moves over and keeps its confidence
ForceMostPantLike(tops0, forced_bottom) ==
    <<ListRemove(tops0, forced_bottom),
      <<ForcedBottom(forced_bottom, forced_bottom.confidence)>>>>

\* mutant: recovery never looks at the scores and forces the first top
ForceFirstTop(tops0, top_scores) ==
    <<Tail(tops0), <<ForcedBottom(Head(tops0), 10)>>>>

ForceFrom(tops0, top_scores) ==
    IF top_scores # <<>> /\ top_scores[1][2] > 10
    THEN ForceMostPantLike(tops0, top_scores[1][1])
    ELSE <<Tail(tops0), <<ForcedBottom(Head(tops0), 10)>>>>

\* the fail-safe recovery of hard_split_wardrobe, entered with 0 bottoms
FailSafeRecovery(tops0) == ForceFrom(tops0, TopScores(tops0))

\* mutant: recovery starts one top too late
FailSafeNeedsThree(tops0, bottoms0) == Len(bottoms0) = 0 /\ Len(tops0) >= 3

FailSafeNeeded(tops0, bottoms0) == Len(bottoms0) = 0 /\ Len(tops0) >= 2

\* the first pass: every garment is resolved and filed under its role
NormalizeAll(gs) == [i \in 1..Len(gs) |-> NormalizedGarment(gs[i], i)]

\* mutant: every garment is filed as a top, the bottoms a second time
RoleSplitTopsKeepAll(all) ==
    <<all, SelectSeq(all, LAMBDA n : n.verified_type = BOTTOM)>>

RoleSplit(all) ==
    <<SelectSeq(all, LAMBDA n : n.verified_type # BOTTOM),
      SelectSeq(all, LAMBDA n : n.verified_type = BOTTOM)>>

\* mutant: recovery also turns the first bottom into a top when there is no top
FailSafeBothWays(split) ==
    IF FailSafeNeeded(split[1], split[2]) THEN FailSafeRecovery(split[1])
    ELSE IF FailSafeNeeded(split[2], split[1])
         THEN <<<<[Head(split[2]) EXCEPT !.verified_type = TOP]>>, Tail(split[2])>>
         ELSE split

WithFailSafe(split) ==
    IF FailSafeNeeded(split[1], split[2]) THEN FailSafeRecovery(split[1])
    ELSE split

\* <<tops, bottoms>>
hard_split_wardrobe(gs) == WithFailSafe(RoleSplit(NormalizeAll(gs)))

(***************************************************************************)
(* Outfits.  An outfit item is the dictionary generate_role_locked_outfits *)
(* builds from a NormalizedGarment; pos records which input it came from.  *)
(***************************************************************************)
OutfitItem(n, role) ==
    [name |-> n.name,
     type |-> role,
     visual_type |-> n.visual_type,
     verified_type |-> n.verified_type,
     color |-> n.color,
     hex |-> n.hex_color,
     image |-> n.image_url,
     confidence |-> n.confidence,
     id |-> "",
     filename |-> "",
     pos |-> n.pos]

\* item.get("name") or item.get("id") or item.get("filename"); an absent key
\* and an empty value are both "" (None and "" are both falsy)
ItemId(item) ==
    IF item.name # "" THEN item.name
    ELSE IF item.id # "" THEN item.id
    ELSE item.filename

\* mutant: the validator wants the look of both items to be known
ValidateKnownLooks(top, bottom) ==
    /\ top.type = "top" /\ bottom.type = "bottom"
    /\ top.visual_type = "top" /\ bottom.visual_type = "bottom"
    /\ ItemId(top) # ItemId(bottom)

\* mutant: the validator without its visual reality check
ValidateRolesAndIds(top, bottom) ==
    top.type = "top" /\ bottom.type = "bottom" /\ ItemId(top) # ItemId(bottom)

\* validate_outfit on the items of an outfit
validate_outfit(top, bottom) ==
    IF top.type # "top" THEN FALSE
    ELSE IF bottom.type # "bottom" THEN FALSE
    ELSE IF top.visual_type = "bottom" THEN FALSE
    ELSE IF bottom.visual_type = "top" THEN FALSE
    ELSE IF ItemId(top) = ItemId(bottom) THEN FALSE
    ELSE TRUE

OccasionBoost == 15

\* mutant: the sum is not capped at 1.0
FinalScoreUncapped(harmony, base_score, occ) ==
    base_score + (IF harmony \in OCCASION_BOOSTS(occ) THEN OccasionBoost ELSE 0)

FinalScore(harmony, base_score, occ) ==
    Min(base_score + (IF harmony \in OCCASION_BOOSTS(occ) THEN OccasionBoost ELSE 0),
        100)

OutfitOf(top, bottom, occ, h) ==
    [top |-> OutfitItem(top, "top"),
     bottom |-> OutfitItem(bottom, "bottom"),
     score |-> FinalScore(h[1], h[2], occ),
     harmony |-> h[1],
     occasion |-> occ]

MakeOutfit(top, bottom, occ) ==
    OutfitOf(top, bottom, occ, Harmonies[<<top.hex_color, bottom.hex_color>>])

\* the nested loop: for top in tops: for bottom in bottoms.  The k-th pass of
\* the inner body handles tops[(k-1) \div len(bottoms) + 1] and
\* bottoms[(k-1) % len(bottoms) + 1]; a pass the validator rejects appends
\* nothing (continue).
LoopPass(ts, bs, k, occ) ==
    MakeOutfit(ts[((k - 1) \div Len(bs)) + 1], bs[((k - 1) % Len(bs)) + 1], occ)

Validated(o) == validate_outfit(o.top, o.bottom)

Combinations(ts, bs, occ) ==
    SelectSeq([k \in 1..(Len(ts) * Len(bs)) |-> LoopPass(ts, bs, k, occ)],
              Validated)

\* mutant: the sort is left out
Unsorted(os) == os

SortOutfits(os) ==
    LET sorted == SortDesc([i \in 1..Len(os) |-> <<os[i], os[i].score>>])
    IN  [i \in 1..Len(sorted) |-> sorted[i][1]]

\* mutants: the slice is off by one, either way
TruncateOneShort(os, n) == SubSeq(os, 1, Min(n, Len(os)) - 1)
TruncateOneMore(os, n) == SubSeq(os, 1, Min(n + 1, Len(os)))

\* outfits[:max_outfits] for max_outfits >= 0
Truncate(os, n) == SubSeq(os, 1, Min(n, Len(os)))

\* generate_role_locked_outfits after STEP 1 has produced split
GenerateFromSplit(split, occ, n) ==
    IF Len(split[1]) = 0 \/ Len(split[2]) = 0 THEN <<>>
    ELSE Truncate(SortOutfits(Combinations(split[1], split[2], occ)), n)

generate_role_locked_outfits(gs, occ, n) ==
    GenerateFromSplit(hard_split_wardrobe(gs), occ, n)

(***************************************************************************)
(* Pair-first generation.  calculate_top_likeness_score in                 *)
(* ten-thousandths (0.15 * confidence has four decimals).                  *)
(***************************************************************************)
AspectTerm(width, height) ==
    IF width > 0 /\ height > 0
    THEN IF 10 * height < 8 * width THEN 3000
         ELSE IF height < width THEN 2000
         ELSE IF 10 * height < 12 * width THEN 0
         ELSE IF 10 * height < 15 * width THEN -2000
         ELSE -3000
    ELSE 0

TopKeywords ==
    <<"shirt", "top", "blouse", "sweater", "hoodie", "jacket", "coat", "polo",
      "tee", "vest", "cardigan", "blazer", "tank">>

BottomKeywords ==
    <<"pants", "pant", "jeans", "jean", "trouser", "shorts", "skirt", "legging",
      "jogger", "chino", "cargo", "slack">>

KeywordTerm(name) ==
    (IF FirstMatch(TopKeywords, name) # 0 THEN 2500 ELSE 0)
    - (IF FirstMatch(BottomKeywords, name) # 0 THEN 2500 ELSE 0)

MLTerm(ml_type, confidence) ==
    IF ml_type \in {"top", "shirt", "blouse", "sweater", "hoodie", "jacket"}
    THEN 15 * Min(confidence, 100)
    ELSE IF ml_type \in {"bottom", "pants", "jeans", "shorts", "skirt", "trousers"}
    THEN -(15 * Min(confidence, 100))
    ELSE 0

calculate_top_likeness_score(garment) ==
    Max(0, Min(10000, 5000 + AspectTerm(garment.width, garment.height)
                           + KeywordTerm(Lower(garment.name))
                           + MLTerm(Lower(garment.type), Confidence(garment))))

TopLikeness == [g \in Tabulated |-> calculate_top_likeness_score(g)] @@ <<>>

\* STEP 1: every garment with its name, score and input position
ScoredItem(g, i) ==
    [garment |-> g,
     name |-> ItemName(g, i),
     top_likeness |-> IF g \in Tabulated THEN TopLikeness[g]
                      ELSE calculate_top_likeness_score(g),
     pos |-> i]

\* mutant: on equal scores the first item of the pair is the top
AssignRolesByScore(item_a, item_b) ==
    IF item_b.top_likeness > item_a.top_likeness THEN <<item_b, item_a>>
    ELSE <<item_a, item_b>>

\* STEP 3: <<top_item, bottom_item>> of the pair (item_a, item_b)
AssignRoles(item_a, item_b) ==
    IF item_a.top_likeness > item_b.top_likeness THEN <<item_a, item_b>>
    ELSE IF item_b.top_likeness > item_a.top_likeness THEN <<item_b, item_a>>
    ELSE IF item_a.garment.height > item_b.garment.height THEN <<item_b, item_a>>
    ELSE <<item_a, item_b>>

PairItem(item, role) ==
    [name |-> item.name,
     type |-> role,
     color |-> "Unknown",
     hex |-> HexOf(item.garment),
     image |-> item.garment.image,
     confidence |-> Confidence(item.garment),
     top_likeness |-> item.top_likeness,
     pos |-> item.pos]

PairOutfitOf(roles, occ, h) ==
    [top |-> PairItem(roles[1], "top"),
     bottom |-> PairItem(roles[2], "bottom"),
     score |-> FinalScore(h[1], h[2], occ),
     harmony |-> h[1],
     occasion |-> occ,
     role_confidence |-> Abs(roles[1].top_likeness - roles[2].top_likeness)]

PairOutfitFor(roles, occ) ==
    PairOutfitOf(roles, occ,
                 Harmonies[<<HexOf(roles[1].garment), HexOf(roles[2].garment)>>])

\* STEP 2: the k-th pass of "for i in range(n): for j in range(i + 1, n)"
PairAt(n, k) ==
    CHOOSE ij \in (1..n) \X (1..n) :
        /\ ij[1] < ij[2]
        /\ (ij[1] - 1) * n - (ij[1] * (ij[1] - 1)) \div 2 + (ij[2] - ij[1]) = k

PairPass(items, k) ==
    AssignRoles(items[PairAt(Len(items), k)[1]], items[PairAt(Len(items), k)[2]])

AllPairs(items, occ) ==
    [k \in 1..((Len(items) * (Len(items) - 1)) \div 2) |->
        PairOutfitFor(PairPass(items, k), occ)]

\* STEP 4: sort by score + role_confidence * 0.3, in hundred-thousandths
SortKey(o) == 1000 * o.score + 3 * o.role_confidence

\* mutant: the sort looks at the score only
SortPairsByScore(os) ==
    LET sorted == SortDesc([i \in 1..Len(os) |-> <<os[i], os[i].score>>])
    IN  [i \in 1..Len(sorted) |-> sorted[i][1]]

SortPairs(os) ==
    LET sorted == SortDesc([i \in 1..Len(os) |-> <<os[i], SortKey(os[i])>>])
    IN  [i \in 1..Len(sorted) |-> sorted[i][1]]

DifferentNames(o) == o.top.name # o.bottom.name

\* mutant: pairs whose two names are equal are discarded
PairFirstDifferentNames(gs, occ, n) ==
    IF Len(gs) < 2 THEN <<>>
    ELSE Truncate(SortPairs(SelectSeq(
             AllPairs([i \in 1..Len(gs) |-> ScoredItem(gs[i], i)], occ),
             DifferentNames)), n)

generate_pair_first_outfits(gs, occ, n) ==
    IF Len(gs) < 2 THEN <<>>
    ELSE Truncate(SortPairs(AllPairs([i \in 1..Len(gs) |-> ScoredItem(gs[i], i)],
                                     occ)), n)

(***************************************************************************)
(* The process: the module global _recommender_v2 and the class around     *)
(* generate_role_locked_outfits.  An OutfitRecommenderV2 has no            *)
(* attributes.                                                             *)
(***************************************************************************)
None == [class |-> "NoneType"]

OutfitRecommenderV2 == [class |-> "OutfitRecommenderV2"]

\* the value of _recommender_v2 after get_outfit_recommender()
get_outfit_recommender(global) ==
    IF global = None THEN OutfitRecommenderV2 ELSE global

\* mutant: the occasion of the call served before is still in force
RecommendWithLastOccasion(self, clothing_items, occ, n) ==
    generate_role_locked_outfits(
        clothing_items,
        IF history = <<>> THEN occ ELSE history[Len(history)].occasion,
        n)

\* OutfitRecommenderV2.recommend_outfits
recommend_outfits(self, clothing_items, occ, n) ==
    generate_role_locked_outfits(clothing_items, occ, n)

(***************************************************************************)
(* outfit_recommender.py, the recommender before V2.  It has its own alias *)
(* table with the types dress and blazer, a confidence threshold in front  *)
(* of the table, its own hex_to_hsv without length check, and outfits that *)
(* are lists of one or two garments.  Scores are in hundredths.            *)
(***************************************************************************)
DRESS == "dress"
BLAZER == "blazer"

LegacyTypes == {TOP, BOTTOM, DRESS, BLAZER, UNKNOWN}

CONFIDENCE_THRESHOLD == 70

TopAliases ==
    {"top", "shirt", "blouse", "t-shirt", "tshirt", "polo", "sweater",
     "hoodie", "jacket", "coat"}

BottomAliases ==
    {"bottom", "pants", "pant", "jeans", "trousers", "shorts", "skirt"}

\* str.strip() for blanks
RECURSIVE RStrip(_, _)
RStrip(s, c) == IF Len(s) > 0 /\ CharAt(s, Len(s)) = c
                THEN RStrip(SubSeq(s, 1, Len(s) - 1), c)
                ELSE s

Strip(s) == RStrip(LStrip(s, " "), " ")

\* mutant: blazer is one more alias of top
AliasWithBlazerTops(key) ==
    IF key \in TopAliases \cup {"blazer"} THEN TOP
    ELSE IF key \in BottomAliases THEN BOTTOM
    ELSE IF key = "dress" THEN DRESS
    ELSE UNKNOWN

\* TYPE_ALIASES.get(key, GarmentType.UNKNOWN)
LegacyAlias(key) ==
    IF key \in TopAliases THEN TOP
    ELSE IF key \in BottomAliases THEN BOTTOM
    ELSE IF key = "dress" THEN DRESS
    ELSE IF key = "blazer" THEN BLAZER
    ELSE UNKNOWN

\* mutant: the table is consulted whatever the confidence
NormalizeAnyConfidence(raw_type, confidence) == LegacyAlias(Lower(Strip(raw_type)))

normalize_garment_type(raw_type, confidence) ==
    IF confidence < CONFIDENCE_THRESHOLD THEN UNKNOWN
    ELSE LegacyAlias(Lower(Strip(raw_type)))

\* item.get("confidence", 1.0)
LegacyConfidence(item) ==
    IF item.confidence = NoConfidence THEN 100 ELSE item.confidence

TypesOf(items) ==
    [i \in 1..Len(items) |->
        normalize_garment_type(items[i].type, LegacyConfidence(items[i]))]

Count(types, t) == Cardinality({i \in 1..Len(types) : types[i] = t})

\* Rule 1, Rule 2 and Rule 3; everything else is rejected
ValidTypes(types) ==
    \/ Len(types) = 2 /\ Count(types, TOP) = 1 /\ Count(types, BOTTOM) = 1
    \/ Len(types) = 1 /\ Count(types, DRESS) = 1
    \/ /\ Len(types) = 3
       /\ Count(types, BLAZER) = 1
       /\ Count(types, TOP) = 1
       /\ Count(types, BOTTOM) = 1

NoUnknownAndValid(types) ==
    IF \E i \in 1..Len(types) : types[i] = UNKNOWN THEN FALSE
    ELSE ValidTypes(types)

is_valid_outfit(items) ==
    IF items = <<>> THEN FALSE ELSE NoUnknownAndValid(TypesOf(items))

LegacyName(g) == IF g.name # "" THEN g.name ELSE "Unknown"

NormalizedAs(g, normalized_type) ==
    [name |-> LegacyName(g),
     type |-> normalized_type,
     normalized_type |-> normalized_type,
     color |-> LegacyName(g),
     hex |-> HexOf(g),
     confidence |-> LegacyConfidence(g),
     original |-> g]

\* the garments the requests to outfit_recommender.py are drawn from
LegacyGarment(name, type, confidence, hex) ==
    Garment(<<name, 0, 0>>, <<type, confidence, hex>>)

LegacyWardrobe ==
    {LegacyGarment("a", "Shirt ", NoConfidence, "#1f3c88"),
     LegacyGarment("b", "top", 70, "#ff0000"),
     LegacyGarment("a", "T-Shirt", 69, "#1f3c88"),
     LegacyGarment("b", "jeans", NoConfidence, "#000000"),
     LegacyGarment("c", "Pants", 95, "#00FFFF"),
     LegacyGarment("a", "bottom", 70, "bad"),
     LegacyGarment("e", "dress", 95, "#ff0000"),
     LegacyGarment("f", "dress", 69, ""),
     LegacyGarment("g", "blazer", NoConfidence, "#000000"),
     LegacyGarment("", "hat", NoConfidence, "")}

\* normalize_garment_type of the garments above, tabulated
LegacyNormalizedTypes ==
    [g \in LegacyWardrobe \cup Closet |->
        normalize_garment_type(g.type, LegacyConfidence(g))] @@ <<>>

\* the normalized_garment dictionary of separate_by_type
LegacyNormalized(g) ==
    NormalizedAs(g, IF g \in DOMAIN LegacyNormalizedTypes
                    THEN LegacyNormalizedTypes[g]
                    ELSE normalize_garment_type(g.type, LegacyConfidence(g)))

Separated(all) ==
    [t \in LegacyTypes |-> SelectSeq(all, LAMBDA n : n.normalized_type = t)]

separate_by_type(gs) ==
    Separated([i \in 1..Len(gs) |-> LegacyNormalized(gs[i])])

\* color_harmony(h1, h2) of outfit_recommender.py
LegacyClassifyDiff(diff, q) ==
    IF diff < 15 * q THEN <<"Monochromatic", 95>>
    ELSE IF diff < 40 * q THEN <<"Analogous", 90>>
    ELSE IF Abs(diff - 120 * q) < 15 * q THEN <<"Triadic", 85>>
    ELSE IF Abs(diff - 180 * q) < 15 * q THEN <<"Complementary", 90>>
    ELSE <<"Low Harmony", 50>>

color_harmony(h1, h2) ==
    LegacyClassifyDiff(WrapDiff(HueDiff(h1, h2), h1[2] * h2[2]), h1[2] * h2[2])

\* int() raises ValueError on a pair that is no number; colorsys divides by
\* maxc when the channels differ
Raises(rgb) ==
    \/ InvalidInt \in {rgb[1], rgb[2], rgb[3]}
    \/ /\ Max3(rgb[1], rgb[2], rgb[3]) = 0
       /\ Min3(rgb[1], rgb[2], rgb[3]) # 0

\* the try block of Step 3 on the two parsed colors
HarmonyOrUnknown(rgb1, rgb2) ==
    IF Raises(rgb1) \/ Raises(rgb2) THEN <<"Unknown", 50>>
    ELSE color_harmony(rgb_to_hue(rgb1[1], rgb1[2], rgb1[3]),
                       rgb_to_hue(rgb2[1], rgb2[2], rgb2[3]))

LegacyHarmony(hex1, hex2) == HarmonyOrUnknown(hex_to_rgb(hex1), hex_to_rgb(hex2))

OCCASION_WEIGHTS(occ) ==
    CASE occ \in {"formal", "office", "business", "college"} ->
             {"Monochromatic", "Analogous"}
      [] occ = "casual" -> {"Analogous", "Triadic"}
      [] occ = "party" -> {"Complementary", "Triadic"}
      [] occ = "date" -> {"Analogous", "Complementary"}
      [] occ = "sports" -> {"Triadic", "Complementary"}
      [] OTHER -> {}

\* Step 4: round(min(base_score + occasion_boost, 1.0), 2)
LegacyScore(h, occ) ==
    Min(h[2] + (IF h[1] \in OCCASION_WEIGHTS(occ) THEN 20 ELSE 0), 100)

ItemOf(n) == [type |-> n.type, confidence |-> n.confidence]

\* the checks of one pass of "for top in tops: for bottom in bottoms"
Accepted(pass) ==
    /\ pass[1].normalized_type = TOP
    /\ pass[2].normalized_type = BOTTOM
    /\ pass[1].name # pass[2].name
    /\ is_valid_outfit(<<ItemOf(pass[1]), ItemOf(pass[2])>>)

PairRecommendation(top, bottom, occ, h) ==
    [outfit |-> <<top.name, bottom.name>>,
     types |-> <<top.type, bottom.type>>,
     colors |-> <<top.color, bottom.color>>,
     hexes |-> <<top.hex, bottom.hex>>,
     harmony |-> h[1],
     occasion |-> occ,
     score |-> LegacyScore(h, occ),
     items |-> <<top.original, bottom.original>>,
     total_items |-> 2]

RecommendationOf(pass, occ) ==
    PairRecommendation(pass[1], pass[2], occ, LegacyHarmony(pass[1].hex, pass[2].hex))

Passes(ts, bs) ==
    [k \in 1..(Len(ts) * Len(bs)) |->
        <<ts[((k - 1) \div Len(bs)) + 1], bs[((k - 1) % Len(bs)) + 1]>>]

RecommendationsOf(passes, occ) ==
    [k \in 1..Len(passes) |-> RecommendationOf(passes[k], occ)]

\* Step 2 to Step 4
PairRecommendations(ts, bs, occ) ==
    RecommendationsOf(SelectSeq(Passes(ts, bs), Accepted), occ)

ValidDress(dress) == is_valid_outfit(<<ItemOf(dress)>>)

DressRecommendation(dress, occ) ==
    [outfit |-> <<dress.name>>,
     types |-> <<dress.type>>,
     colors |-> <<dress.color>>,
     hexes |-> <<dress.hex>>,
     harmony |-> "Single Piece",
     occasion |-> occ,
     score |-> 85,
     items |-> <<dress.original>>,
     total_items |-> 1]

DressesOf(valid, occ) ==
    [k \in 1..Len(valid) |-> DressRecommendation(valid[k], occ)]

\* "Add single dresses as valid outfits"
DressRecommendations(dresses, occ) ==
    DressesOf(SelectSeq(dresses, ValidDress), occ)

RecommendSeparated(separated, occ) ==
    SortOutfits(PairRecommendations(separated[TOP], separated[BOTTOM], occ)
                    \o DressRecommendations(separated[DRESS], occ))

\* recommend_outfits(garments, occasion) of outfit_recommender.py
legacy_recommend_outfits(gs, occ) == RecommendSeparated(separate_by_type(gs), occ)

(***************************************************************************)
(* emergency_recommender.py: index-based pairing.  A call either returns a *)
(* list, <<"returned", outfits>>, or leaves with an exception,             *)
(* <<"NameError", <<>>>>.                                                  *)
(***************************************************************************)
EmergencyTopKeywords ==
    <<"shirt", "tshirt", "tee", "top", "button-up", "buttondown", "button-up",
      "button", "blouse">>

EmergencyBottomKeywords ==
    <<"pant", "pants", "jean", "jeans", "trouser", "trousers", "denim">>

_looks_like_top(name) ==
    IF name = "" THEN FALSE ELSE FirstMatch(EmergencyTopKeywords, Lower(name)) # 0

_looks_like_bottom(name) ==
    IF name = "" THEN FALSE ELSE FirstMatch(EmergencyBottomKeywords, Lower(name)) # 0

\* "top" or "bottom" of an outfit; pos records which input it came from
EmergencyItem(src, name, role, pos) ==
    [name |-> name, type |-> role, category |-> role, color |-> HexOf(src),
     hex |-> HexOf(src), url |-> src.image, image |-> src.image, role |-> role,
     colorName |-> "Unknown", pos |-> pos]

EmergencyOutfit(top, bottom, occ) ==
    [top |-> top, bottom |-> bottom, score |-> 85, harmony |-> "Neutral",
     occasion |-> occ]

\* the outfit of garments[i] and garments[i + 1], swapped when the second
\* name looks like a top and the first like a bottom; i counts from 0
EmergencyPair(gs, i, first_name, second_name, occ) ==
    IF _looks_like_top(second_name) /\ _looks_like_bottom(first_name)
    THEN EmergencyOutfit(EmergencyItem(gs[i + 2], second_name, "top", i + 2),
                         EmergencyItem(gs[i + 1], first_name, "bottom", i + 1), occ)
    ELSE EmergencyOutfit(EmergencyItem(gs[i + 1], first_name, "top", i + 1),
                         EmergencyItem(gs[i + 2], second_name, "bottom", i + 2), occ)

\* one pass of "for i in range(0, len(garments) - 1, 2)", up to the append
EmergencyPass(gs, i, occ) ==
    EmergencyPair(gs, i, ItemName(gs[i + 1], i + 1), ItemName(gs[i + 2], i + 2), occ)

\* the names the function has bound when it reaches the log line of a pass
BoundAtLog ==
    {"garments", "occasion", "max_outfits", "logger", "len", "outfits", "i",
     "first_item", "second_item", "first_name", "second_name", "src_top",
     "src_bottom", "top_hex", "bottom_hex", "top_url", "bottom_url",
     "top_color", "bottom_color", "outfit"}

\* the names the f-string of the log line reads
ReadByLog == {"len", "outfits", "top_name", "bottom_name"}

LogRaises == ~(ReadByLog \subseteq BoundAtLog)

\* the passes that run when none raises: the loop breaks once
\* len(outfits) >= max_outfits, which it tests after the append
EmergencyPasses(gs, n) == Min(Len(gs) \div 2, Max(n, 1))

emergency_generate_outfits(gs, occ, n) ==
    IF Len(gs) < 2 THEN <<"returned", <<>>>>
    ELSE IF LogRaises THEN <<"NameError", <<>>>>
    ELSE <<"returned",
           [k \in 1..EmergencyPasses(gs, n) |-> EmergencyPass(gs, 2 * (k - 1), occ)]>>

(***************************************************************************)
(* Initial values of the variables a specification does not use.           *)
(***************************************************************************)
NoRequest ==
    /\ garments = <<>>
    /\ occasion = ""
    /\ max_outfits = 0
    /\ tops = <<>>
    /\ bottoms = <<>>
    /\ outfits = <<>>

NoResolve == single = <<>> /\ normalized = <<>>

NoValidate == candidate = <<>> /\ verdict = <<>>

NoHarmony == colors = <<>> /\ classified = <<>>

NoProcess == recommender = <<>> /\ history = <<>> /\ requests = <<>>

(***************************************************************************)
(* The request: the caller assembles a garment list, then calls            *)
(* generate_role_locked_outfits(garments, occasion, max_outfits).          *)
(***************************************************************************)
Init ==
    /\ pc = "input"
    /\ NoRequest /\ NoResolve /\ NoValidate /\ NoHarmony /\ NoProcess

AddGarment(g) ==
    /\ pc = "input"
    /\ Len(garments) < MaxGarments
    /\ garments' = Append(garments, g)
    /\ UNCHANGED <<pc, occasion, max_outfits, tops, bottoms, outfits>>
    /\ UNCHANGED <<resolveVars, validateVars, harmonyVars, processVars>>

\* STEP 4 raises on the first pair that passed the validator and has a
\* color whose conversion raises; nothing catches it on the way out
ScoringRaises(split) ==
    \E i \in 1..Len(split[1]), j \in 1..Len(split[2]) :
        /\ validate_outfit(OutfitItem(split[1][i], "top"),
                           OutfitItem(split[2][j], "bottom"))
        /\ Harmonies[<<split[1][i].hex_color, split[2][j].hex_color>>][1]
               = "ZeroDivisionError"

\* STEP 1 hands its two lists to the rest of the call, which returns a list
\* or is left by the exception
Respond(split, occ, n) ==
    /\ tops' = split[1]
    /\ bottoms' = split[2]
    /\ IF ScoringRaises(split)
       THEN outfits' = <<>> /\ pc' = "raised"
       ELSE outfits' = GenerateFromSplit(split, occ, n) /\ pc' = "done"

Recommend(occ, n) ==
    /\ pc = "input"
    /\ occasion' = occ
    /\ max_outfits' = n
    /\ Respond(hard_split_wardrobe(garments), occ, n)
    /\ UNCHANGED garments
    /\ UNCHANGED <<resolveVars, validateVars, harmonyVars, processVars>>

Next ==
    \/ \E g \in Wardrobe : AddGarment(g)
    \/ \E occ \in Occasions, n \in 0..MaxResults : Recommend(occ, n)

Spec == Init /\ [][Next]_vars

(***************************************************************************)
(* The resolver on its own: one garment dictionary, any combination of     *)
(* present and absent keys, turned into a NormalizedGarment.               *)
(***************************************************************************)
ResolveNames == {"", "a.jpg", "Blue Shirt", "pants1.jpg", "short-sleeve", "cuffed"}

ResolveDims == {<<0, 0>>, <<0, 5>>, <<-3, 4>>, <<4, 3>>, <<10, 10>>, <<10, 12>>,
                <<10, 13>>, <<20, 27>>, <<10, 14>>, <<2, 3>>}

ResolveTypes == {"", "top", "JEANS", "T-Shirt", "unknown_thing", "Blue_Shirt",
                 "cargo shorts top"}

ResolveConfidences == {NoConfidence, 0, 50, 95, 150}

ResolveImages == {"", "http://cdn/img/jeans_01.png?w=2"}

ResolveInputs ==
    {[name |-> n, width |-> d[1], height |-> d[2], type |-> t, confidence |-> c,
      hex |-> "", image |-> u] :
        n \in ResolveNames, d \in ResolveDims, t \in ResolveTypes,
        c \in ResolveConfidences, u \in ResolveImages}

InitResolve ==
    /\ pc = "garment"
    /\ single \in ResolveInputs
    /\ normalized = <<>>
    /\ NoRequest /\ NoValidate /\ NoHarmony /\ NoProcess

Resolve ==
    /\ pc = "garment"
    /\ normalized' = <<NormalizedGarment(single, 1)>>
    /\ pc' = "resolved"
    /\ UNCHANGED <<single, requestVars, validateVars, harmonyVars, processVars>>

NextResolve == Resolve

SpecResolve == InitResolve /\ [][NextResolve]_vars

(***************************************************************************)
(* The validator on its own: any outfit dictionary a caller can hand to    *)
(* validate_outfit, keys present or absent.                                *)
(***************************************************************************)
ItemTypes == {"top", "bottom", ""}
ItemVisualTypes == {"top", "bottom", "unknown"}
ItemNames == {"", "a", "b"}
ItemIds == {"", "a"}
ItemFilenames == {"", "b"}

Items ==
    {[name |-> n, type |-> t, visual_type |-> v, id |-> i, filename |-> f] :
        n \in ItemNames, t \in ItemTypes, v \in ItemVisualTypes, i \in ItemIds,
        f \in ItemFilenames}

InitValidate ==
    /\ pc = "outfit"
    /\ candidate \in [top : Items, bottom : Items]
    /\ verdict = <<>>
    /\ NoRequest /\ NoResolve /\ NoHarmony /\ NoProcess

Validate ==
    /\ pc = "outfit"
    /\ verdict' = <<validate_outfit(candidate.top, candidate.bottom)>>
    /\ pc' = "validated"
    /\ UNCHANGED <<candidate, requestVars, resolveVars, harmonyVars, processVars>>

NextValidate == Validate

SpecValidate == InitValidate /\ [][NextValidate]_vars

(***************************************************************************)
(* The harmony classifiers on their own: two color strings, well-formed or *)
(* not, classified in both orders by calculate_color_harmony or scored in  *)
(* both orders by calculate_harmony.                                       *)
(***************************************************************************)
HarmonyHexes ==
    {"#ff0000", "00ff00", "#0000FF", "#ffff00", "#00FFFF", "#ff8000", "#fe0000",
     "#808080", "#000000", "#402010", "#ff00ff1", "#12345", "#gg0000", "",
     "#00c885", "#00c88c", "#00c896", "#00c8a0", "#004040"}

InitHarmony ==
    /\ pc = "colors"
    /\ colors \in HarmonyHexes \X HarmonyHexes
    /\ classified = <<>>
    /\ NoRequest /\ NoResolve /\ NoValidate /\ NoProcess

Classify ==
    /\ pc = "colors"
    /\ classified' = <<calculate_color_harmony(colors[1], colors[2]),
                       calculate_color_harmony(colors[2], colors[1])>>
    /\ pc' = "classified"
    /\ UNCHANGED <<colors, requestVars, resolveVars, validateVars, processVars>>

Score ==
    /\ pc = "colors"
    /\ classified' = <<calculate_harmony(colors[1], colors[2]),
                       calculate_harmony(colors[2], colors[1])>>
    /\ pc' = "scored"
    /\ UNCHANGED <<colors, requestVars, resolveVars, validateVars, processVars>>

NextHarmony == Classify \/ Score

SpecHarmony == InitHarmony /\ [][NextHarmony]_vars

(***************************************************************************)
(* STEP 4 of generate_role_locked_outfits on its own: the colors of a top  *)
(* and a bottom and the occasion of the request, any string.               *)
(***************************************************************************)
ScoreOccasions ==
    {"formal", "office", "business", "casual", "party", "date", "college",
     "sports", "picnic", "Party", ""}

InitScore ==
    /\ pc = "pair"
    /\ colors \in HarmonyHexes \X HarmonyHexes
    /\ occasion \in ScoreOccasions
    /\ classified = <<>>
    /\ garments = <<>> /\ max_outfits = 0
    /\ tops = <<>> /\ bottoms = <<>> /\ outfits = <<>>
    /\ NoResolve /\ NoValidate /\ NoProcess

\* classified is <<(harmony, base_score), final_score>>
CalculateScore ==
    /\ pc = "pair"
    /\ classified' =
           <<calculate_color_harmony(colors[1], colors[2]),
             FinalScore(calculate_color_harmony(colors[1], colors[2])[1],
                        calculate_color_harmony(colors[1], colors[2])[2],
                        occasion)>>
    /\ pc' = "priced"
    /\ UNCHANGED <<colors, requestVars, resolveVars, validateVars, processVars>>

NextScore == CalculateScore

SpecScore == InitScore /\ [][NextScore]_vars

(***************************************************************************)
(* A process serving one call after another, through the recommender       *)
(* singleton or through generate_pair_first_outfits, with any mix of       *)
(* arguments.                                                              *)
(***************************************************************************)
(* The two-garment requests: one garment that has only an upper label and  *)
(* one that has only a lower label, in either order.                       *)
(***************************************************************************)
ScenarioWardrobes ==
    {<<a, b>> : a \in UpperLabelled, b \in LowerLabelled}
        \cup {<<b, a>> : a \in UpperLabelled, b \in LowerLabelled}

ScenarioOccasions == {"formal", "party"}

InitScenario ==
    /\ pc = "input"
    /\ garments \in ScenarioWardrobes
    /\ occasion = ""
    /\ max_outfits = 0
    /\ tops = <<>>
    /\ bottoms = <<>>
    /\ outfits = <<>>
    /\ NoResolve /\ NoValidate /\ NoHarmony /\ NoProcess

NextScenario ==
    \E occ \in ScenarioOccasions, n \in 1..MaxResults : Recommend(occ, n)

SpecScenario == InitScenario /\ [][NextScenario]_vars

(***************************************************************************)
(* Requests over garments of every kind of color.                          *)
(***************************************************************************)
NextColor ==
    \/ \E g \in ColorWardrobe : AddGarment(g)
    \/ \E occ \in Occasions, n \in 1..MaxResults : Recommend(occ, n)

SpecColor == Init /\ [][NextColor]_vars

(***************************************************************************)
(* Requests over garments that give the resolver nothing.                  *)
(***************************************************************************)
NextNoSignal ==
    \/ \E g \in NoSignalWardrobe : AddGarment(g)
    \/ \E occ \in Occasions, n \in 0..MaxResults : Recommend(occ, n)

SpecNoSignal == Init /\ [][NextNoSignal]_vars

(***************************************************************************)
(* The pair-first request: the caller assembles a garment list, then calls *)
(* generate_pair_first_outfits(garments, occasion, max_outfits).  The      *)
(* garments have no signal at all, or a file name and a label that may     *)
(* contradict each other; several carry the same name.                     *)
(***************************************************************************)
PairLooks == {<<"", 0, 0>>, <<"pants.jpg", 2, 3>>, <<"", 20, 23>>}

PairWardrobe == {Garment(l, u) : l \in PairLooks, u \in Upstream}

\* up to one more than MaxResults, so that three garments can go untruncated
PairLimits == 0..(MaxResults + 1)

\* with two or more garments every garment is in a pair, and scoring a pair
\* converts both colors
PairingRaises(gs) ==
    /\ Len(gs) >= 2
    /\ \E p \in 1..Len(gs) :
           Harmonies[<<HexOf(gs[p]), HexOf(gs[p])>>][1] = "ZeroDivisionError"

PairFirst(occ, n) ==
    /\ pc = "input"
    /\ occasion' = occ
    /\ max_outfits' = n
    /\ IF PairingRaises(garments)
       THEN outfits' = <<>> /\ pc' = "raised"
       ELSE outfits' = generate_pair_first_outfits(garments, occ, n)
            /\ pc' = "paired"
    /\ UNCHANGED <<garments, tops, bottoms>>
    /\ UNCHANGED <<resolveVars, validateVars, harmonyVars, processVars>>

NextPairFirst ==
    \/ \E g \in PairWardrobe : AddGarment(g)
    \/ \E occ \in Occasions, n \in PairLimits : PairFirst(occ, n)

SpecPairFirst == Init /\ [][NextPairFirst]_vars

(***************************************************************************)
RepeatWardrobes ==
    {<<Garment(<<"shirt.jpg", 4, 3>>, <<"T-Shirt", 40, "#00FFFF">>),
       Garment(<<"pants.jpg", 2, 3>>, <<"bottom", 95, "#ff0000">>),
       Garment(<<"tee.jpg", 10, 14>>, <<"", NoConfidence, "">>)>>,
     <<Garment(<<"", 20, 23>>, <<"bottom", 95, "#ff0000">>),
       Garment(<<"shirt.jpg", 4, 3>>, <<"T-Shirt", 40, "#00FFFF">>)>>}

RepeatLimits == {1, MaxResults}

Served(mode, gs, occ, n, result) ==
    [mode |-> mode, garments |-> gs, occasion |-> occ, max_outfits |-> n,
     outfits |-> result]

InitRepeat ==
    /\ pc = "serving"
    /\ recommender = None
    /\ history = <<>>
    /\ requests = <<>>
    /\ NoRequest /\ NoResolve /\ NoValidate /\ NoHarmony

\* get_outfit_recommender().recommend_outfits(gs, occ, n)
CallRecommender(gs, occ, n) ==
    /\ pc = "serving"
    /\ Len(history) < MaxCalls
    /\ recommender' = get_outfit_recommender(recommender)
    /\ history' = Append(history,
                         Served("role_locked", gs, occ, n,
                                recommend_outfits(get_outfit_recommender(recommender),
                                                  gs, occ, n)))
    /\ UNCHANGED <<pc, requests, requestVars, resolveVars, validateVars,
                   harmonyVars>>

\* generate_pair_first_outfits(gs, occ, n)
CallPairFirst(gs, occ, n) ==
    /\ pc = "serving"
    /\ Len(history) < MaxCalls
    /\ history' = Append(history,
                         Served("pair_first", gs, occ, n,
                                generate_pair_first_outfits(gs, occ, n)))
    /\ UNCHANGED <<pc, recommender, requests, requestVars, resolveVars,
                   validateVars, harmonyVars>>

NextRepeat ==
    \E gs \in RepeatWardrobes, occ \in Occasions, n \in RepeatLimits :
        \/ CallRecommender(gs, occ, n)
        \/ CallPairFirst(gs, occ, n)

SpecRepeat == InitRepeat /\ [][NextRepeat]_vars

(***************************************************************************)
(* Two threads serve one request each, at the same time and on the same    *)
(* list object.  A thread's call is a sequence of steps; between two steps *)
(* the other thread may run.  What the threads share is the caller's list  *)
(* of garment dictionaries (garments) and the module global                *)
(* (recommender); the lookup tables are assigned once at import and by no  *)
(* statement of the functions.  tops, bottoms, items_with_scores and       *)
(* outfits are locals of the call.                                         *)
(***************************************************************************)
Threads == 1..2

ConcurrentWardrobes ==
    RepeatWardrobes \cup
    {<<Garment(<<"", 0, 0>>, <<"T-Shirt", 40, "#00FFFF">>),
       Garment(<<"", 0, 0>>, <<"T-Shirt", 40, "#00FFFF">>)>>,
     <<Garment(<<"shirt.jpg", 4, 3>>, <<"", NoConfidence, "">>),
       Garment(<<"", 0, 0>>, <<"", NoConfidence, "">>),
       Garment(<<"tee.jpg", 10, 14>>, <<"T-Shirt", 40, "#00FFFF">>)>>}

Modes == {"role_locked", "pair_first"}

\* a call that has not started: its arguments and empty locals
Call(mode, gs, occ, n) ==
    [pc |-> "start", mode |-> mode, input |-> gs, occasion |-> occ,
     max_outfits |-> n, split |-> <<>>, items |-> <<>>, outfits |-> <<>>]

\* mutant: the split writes the role it decided into the caller's record
RecordsRelabelled(gs, split) ==
    [i \in 1..Len(gs) |->
        IF \E k \in 1..Len(split[2]) : split[2][k].pos = i
        THEN [gs[i] EXCEPT !.type = "bottom"]
        ELSE gs[i]]

\* the caller's records after hard_split_wardrobe: it builds NormalizedGarment
\* objects that refer to the dictionaries and assigns to none of them
RecordsAfterSplit(gs, split) == gs

\* the caller's records after STEP 1 of pair-first: {**g, ...} copies
RecordsAfterScoring(gs, items) == gs

InitConcurrent ==
    /\ pc = "concurrent"
    /\ garments \in ConcurrentWardrobes
    /\ recommender = None
    /\ requests \in
           {[t \in Threads |-> Call(m[t], garments, o[t], MaxResults)] :
               m \in [Threads -> Modes], o \in [Threads -> Occasions]}
    /\ occasion = ""
    /\ max_outfits = 0
    /\ tops = <<>>
    /\ bottoms = <<>>
    /\ outfits = <<>>
    /\ history = <<>>
    /\ NoResolve /\ NoValidate /\ NoHarmony

ConcurrentUnchanged ==
    UNCHANGED <<pc, occasion, max_outfits, tops, bottoms, outfits, history,
                resolveVars, validateVars, harmonyVars>>

\* get_outfit_recommender: if _recommender_v2 is None
GetRecommender(t) ==
    /\ requests[t].pc = "start"
    /\ requests[t].mode = "role_locked"
    /\ requests' = [requests EXCEPT ![t].pc =
                        IF recommender = None THEN "create" ELSE "split"]
    /\ UNCHANGED <<garments, recommender>>
    /\ ConcurrentUnchanged

\* get_outfit_recommender: _recommender_v2 = OutfitRecommenderV2()
CreateRecommender(t) ==
    /\ requests[t].pc = "create"
    /\ recommender' = OutfitRecommenderV2
    /\ requests' = [requests EXCEPT ![t].pc = "split"]
    /\ UNCHANGED garments
    /\ ConcurrentUnchanged

SplitInto(t, split) ==
    /\ requests' = [requests EXCEPT ![t].pc = "generate", ![t].split = split]
    /\ garments' = RecordsAfterSplit(garments, split)

\* STEP 1 of generate_role_locked_outfits
SplitWardrobe(t) ==
    /\ requests[t].pc = "split"
    /\ SplitInto(t, hard_split_wardrobe(garments))
    /\ UNCHANGED recommender
    /\ ConcurrentUnchanged

\* STEP 2 to the return of generate_role_locked_outfits
GenerateOutfits(t) ==
    /\ requests[t].pc = "generate"
    /\ requests' = [requests EXCEPT
                        ![t].pc = "returned",
                        ![t].outfits = GenerateFromSplit(requests[t].split,
                                                         requests[t].occasion,
                                                         requests[t].max_outfits)]
    /\ UNCHANGED <<garments, recommender>>
    /\ ConcurrentUnchanged

ScoreInto(t, items) ==
    /\ requests' = [requests EXCEPT
                        ![t].pc = IF Len(items) < 2 THEN "returned" ELSE "pairs",
                        ![t].items = items]
    /\ garments' = RecordsAfterScoring(garments, items)

\* the length check and STEP 1 of generate_pair_first_outfits
ScoreItems(t) ==
    /\ requests[t].pc = "start"
    /\ requests[t].mode = "pair_first"
    /\ ScoreInto(t, [i \in 1..Len(garments) |-> ScoredItem(garments[i], i)])
    /\ UNCHANGED recommender
    /\ ConcurrentUnchanged

\* STEP 2 to the return of generate_pair_first_outfits
MakePairs(t) ==
    /\ requests[t].pc = "pairs"
    /\ requests' = [requests EXCEPT
                        ![t].pc = "returned",
                        ![t].outfits =
                            Truncate(SortPairs(AllPairs(requests[t].items,
                                                        requests[t].occasion)),
                                     requests[t].max_outfits)]
    /\ UNCHANGED <<garments, recommender>>
    /\ ConcurrentUnchanged

NextConcurrent ==
    \E t \in Threads :
        \/ GetRecommender(t)
        \/ CreateRecommender(t)
        \/ SplitWardrobe(t)
        \/ GenerateOutfits(t)
        \/ ScoreItems(t)
        \/ MakePairs(t)

SpecConcurrent == InitConcurrent /\ [][NextConcurrent]_vars

(***************************************************************************)
(* The request to outfit_recommender.py: the caller assembles a garment    *)
(* list, then either calls recommend_outfits(garments, occasion) or asks   *)
(* is_valid_outfit about the list as it stands.                            *)
(***************************************************************************)
RecommendLegacy(occ) ==
    /\ pc = "input"
    /\ occasion' = occ
    /\ outfits' = legacy_recommend_outfits(garments, occ)
    /\ pc' = "recommended"
    /\ UNCHANGED <<garments, max_outfits, tops, bottoms>>
    /\ UNCHANGED <<resolveVars, validateVars, harmonyVars, processVars>>

IsValidOutfit ==
    /\ pc = "input"
    /\ candidate' = garments
    /\ verdict' = <<is_valid_outfit(garments)>>
    /\ pc' = "validated"
    /\ UNCHANGED <<requestVars, resolveVars, harmonyVars, processVars>>

NextLegacy ==
    \/ \E g \in LegacyWardrobe : AddGarment(g)
    \/ \E occ \in Occasions : RecommendLegacy(occ)
    \/ IsValidOutfit

SpecLegacy == Init /\ [][NextLegacy]_vars

(***************************************************************************)
(* One garment list, handed to recommend_outfits of outfit_recommender.py  *)
(* or to generate_role_locked_outfits.                                     *)
(***************************************************************************)
NextCompare ==
    \/ \E g \in Closet : AddGarment(g)
    \/ \E occ \in Occasions : RecommendLegacy(occ)
    \/ \E occ \in Occasions, n \in 1..MaxResults : Recommend(occ, n)

SpecCompare == Init /\ [][NextCompare]_vars

(***************************************************************************)
(* The request to emergency_recommender.py: the caller assembles a garment *)
(* list, then calls emergency_generate_outfits(garments, occasion,         *)
(* max_outfits).  verdict holds how the call ended.                        *)
(***************************************************************************)
EmergencyLooks == {<<"", 0, 0>>, <<"shirt.jpg", 4, 3>>, <<"pants.jpg", 2, 3>>}

EmergencyUpstream == {<<"", NoConfidence, "">>, <<"bottom", 95, "#ff0000">>}

EmergencyWardrobe == {Garment(l, u) : l \in EmergencyLooks, u \in EmergencyUpstream}

Ended(result) ==
    /\ verdict' = <<result[1]>>
    /\ outfits' = result[2]

Emergency(occ, n) ==
    /\ pc = "input"
    /\ occasion' = occ
    /\ max_outfits' = n
    /\ Ended(emergency_generate_outfits(garments, occ, n))
    /\ pc' = "emergency"
    /\ UNCHANGED <<garments, tops, bottoms, candidate>>
    /\ UNCHANGED <<resolveVars, harmonyVars, processVars>>

NextEmergency ==
    \/ \E g \in EmergencyWardrobe : AddGarment(g)
    \/ \E occ \in Occasions, n \in 1..MaxResults : Emergency(occ, n)

SpecEmergency == Init /\ [][NextEmergency]_vars

(***************************************************************************)
(* Properties of the request (specification Spec).                         *)
(***************************************************************************)
Done == pc = "done"

\* the role the resolver gives the garment at input position p
RoleOf(p) == ResolvedTypes[garments[p]]

AllResolveLower == \A p \in 1..Len(garments) : RoleOf(p) = BOTTOM
NoneResolvesLower == \A p \in 1..Len(garments) : RoleOf(p) # BOTTOM

\* the validated combinations of the two lists, in generation order
ValidCombos == Combinations(tops, bottoms, occasion)

Pair(o) == <<o.top.pos, o.bottom.pos>>

Returned(o) == \E i \in 1..Len(outfits) : Pair(outfits[i]) = Pair(o)

\* C1: every returned outfit has an upper item whose role and final resolved
\* role are top, a lower item whose role and final resolved role are bottom,
\* and the two items have different identifiers.
C1_RoleLock ==
    \A i \in 1..Len(outfits) :
        /\ outfits[i].top.type = "top"
        /\ outfits[i].top.verified_type = TOP
        /\ outfits[i].bottom.type = "bottom"
        /\ outfits[i].bottom.verified_type = BOTTOM
        /\ ItemId(outfits[i].top) # ItemId(outfits[i].bottom)

\* an outfit was returned whose lower item the resolver had made a top
C1_Witness ==
    /\ Done
    /\ \E i \in 1..Len(outfits) : RoleOf(outfits[i].bottom.pos) = TOP

C4_Partition ==
    Done =>
        LET both == tops \o bottoms
        IN  /\ Len(both) = Len(garments)
            /\ \A p \in 1..Len(garments) :
                   Cardinality({k \in 1..Len(both) : both[k].pos = p}) = 1
            /\ \A k \in 1..Len(both) :
                   /\ both[k].pos \in 1..Len(garments)
                   /\ both[k].original = garments[both[k].pos]

\* recovery moved a garment that was not the first, out of a list holding
\* an equal garment
C4_Witness ==
    /\ Done
    /\ NoneResolvesLower
    /\ Len(bottoms) = 1 /\ bottoms[1].pos > 1
    /\ \E i \in 1..Len(tops) : tops[i].original = bottoms[1].original

\* C7: at most min(max_outfits, len(tops) * len(bottoms)) outfits are
\* returned, and no (upper, lower) pair of input positions is returned twice.
C7_Bounded ==
    Done =>
        /\ Len(outfits) <= Min(max_outfits, Len(tops) * Len(bottoms))
        /\ \A i, j \in 1..Len(outfits) :
               i # j => Pair(outfits[i]) # Pair(outfits[j])

\* more valid combinations than asked for: the list was cut to max_outfits
C7_Witness ==
    /\ Done /\ max_outfits >= 1
    /\ Len(ValidCombos) > max_outfits
    /\ Len(outfits) = max_outfits

\* C8: the returned list is in descending order of score, and no valid
\* combination that was cut off scores higher than a returned one.
C8_SortedDescending ==
    Done =>
        /\ \A i \in 1..(Len(outfits) - 1) : outfits[i].score >= outfits[i + 1].score
        /\ \A k \in 1..Len(ValidCombos), i \in 1..Len(outfits) :
               ~Returned(ValidCombos[k]) => ValidCombos[k].score <= outfits[i].score

\* the first combination generated was cut off in favour of a later one
\* with a strictly higher score
C8_Witness ==
    /\ Done /\ outfits # <<>>
    /\ ~Returned(ValidCombos[1])
    /\ outfits[1].score > ValidCombos[1].score

(***************************************************************************)
(* Properties of the resolver (specification SpecResolve).                 *)
(***************************************************************************)
\* C5: the resolver returns top or bottom for every garment dictionary, and
\* the final role stored in the NormalizedGarment is never UNKNOWN.
C5_NeverUnknown ==
    pc = "resolved" =>
        /\ resolve_garment_type(single, single.width, single.height) \in {TOP, BOTTOM}
        /\ normalized[1].verified_type \in {TOP, BOTTOM}

\* a garment for which no signal fired and the classifier's type is UNKNOWN
C5_Witness ==
    /\ pc = "resolved"
    /\ Signals(single, single.width, single.height) = <<>>
    /\ normalized[1].type = UNKNOWN
    /\ normalized[1].visual_type = UNKNOWN
    /\ normalized[1].verified_type = TOP

(***************************************************************************)
(* Properties of the validator (specification SpecValidate).               *)
(***************************************************************************)
\* C6 as claimed: validate_outfit returns false when the upper item is not
\* typed top, the lower item is not typed bottom or the two share an
\* identifier, and returns true for an outfit whose top is typed top, whose
\* bottom is typed bottom and whose identifiers differ.
C6_TrueIffRolesAndIds ==
    pc = "validated" =>
        (verdict[1] <=> /\ candidate.top.type = "top"
                        /\ candidate.bottom.type = "bottom"
                        /\ ItemId(candidate.top) # ItemId(candidate.bottom))

\* C6 as amended: validate_outfit returns false when the upper item is not
\* typed top, the lower item is not typed bottom or the two share an
\* identifier (so no outfit with two uppers or two lowers is accepted); it
\* returns true exactly when, besides, the upper item does not look like a
\* bottom and the lower item does not look like a top.
C6_Validator ==
    pc = "validated" =>
        /\ candidate.top.type # "top" => ~verdict[1]
        /\ candidate.bottom.type # "bottom" => ~verdict[1]
        /\ ItemId(candidate.top) = ItemId(candidate.bottom) => ~verdict[1]
        /\ candidate.top.type = candidate.bottom.type => ~verdict[1]
        /\ verdict[1] <=> /\ candidate.top.type = "top"
                          /\ candidate.bottom.type = "bottom"
                          /\ candidate.top.visual_type # "bottom"
                          /\ candidate.bottom.visual_type # "top"
                          /\ ItemId(candidate.top) # ItemId(candidate.bottom)

\* right types and different identifiers, rejected for how the top looks
C6_Witness ==
    /\ pc = "validated"
    /\ candidate.top.type = "top" /\ candidate.bottom.type = "bottom"
    /\ ItemId(candidate.top) # ItemId(candidate.bottom)
    /\ candidate.top.visual_type = "bottom"
    /\ ~verdict[1]

(***************************************************************************)
(* Properties of the harmony classifiers (specification SpecHarmony).      *)
(***************************************************************************)
\* C10: for every pair of colors both classifiers return the same result
\* for (color 1, color 2) as for (color 2, color 1).
C10_Symmetric ==
    pc \in {"classified", "scored"} => classified[1] = classified[2]

\* two colors whose hues are 180 degrees apart, classified Complementary in
\* both orders
C10_Witness ==
    /\ pc = "classified"
    /\ colors[1] # colors[2]
    /\ hex_to_hsv(colors[1]) # hex_to_hsv(colors[2])
    /\ classified[1] = <<"Complementary", 90>>
    /\ classified[2] = <<"Complementary", 90>>

\* the circular hue distance of the two colors as calculate_color_harmony
\* takes it, <<numerator, denominator>> in degrees
HueDistance ==
    <<WrapDiff(HueDiff(hex_to_hsv(colors[1]), hex_to_hsv(colors[2])),
               hex_to_hsv(colors[1])[2] * hex_to_hsv(colors[2])[2]),
      hex_to_hsv(colors[1])[2] * hex_to_hsv(colors[2])[2]>>

InRange(d, low, high) == low * d[2] <= d[1] /\ d[1] <= high * d[2]

StrictlyWithin(d, low, high) == low * d[2] < d[1] /\ d[1] < high * d[2]

\* the two colors as calculate_harmony reads them, and their hue distance
LegacyHsv(k) == rgb_to_hsv(hex_to_rgb(colors[k]))

LegacyDistance ==
    <<LegacyHueDiff(HueDiff(LegacyHsv(1)[1], LegacyHsv(2)[1]),
                    LegacyHsv(1)[1][2] * LegacyHsv(2)[1][2]),
      LegacyHsv(1)[1][2] * LegacyHsv(2)[1][2]>>

KnownOccasions ==
    {"formal", "office", "business", "casual", "party", "date", "college", "sports"}

\* C12: the score is min(base + boost, 1.0), where boost is 0.15 when the
\* category is preferred for the occasion and 0 otherwise; an occasion that
\* is not in the table gives boost 0; the score lies in [0, 1] and is never
\* below the base score.
C12_ScoreFormula ==
    pc = "priced" =>
        /\ classified[2] =
               Min(classified[1][2]
                   + (IF classified[1][1] \in OCCASION_BOOSTS(occasion)
                      THEN 15 ELSE 0), 100)
        /\ occasion \notin KnownOccasions => classified[2] = classified[1][2]
        /\ 0 <= classified[2] /\ classified[2] <= 100
        /\ classified[2] >= classified[1][2]

\* a Complementary pair for a party: 0.90 + 0.15 is capped at 1.0
C12_Witness ==
    /\ pc = "priced"
    /\ occasion = "party"
    /\ classified[1] = <<"Complementary", 90>>
    /\ classified[2] = 100

\* the garment of the request that carries the upper (lower) label
UpperLabelledAt(p) == garments[p] \in UpperLabelled
LowerLabelledAt(p) == garments[p] \in LowerLabelled

LabelsOnly ==
    /\ Len(garments) = 2
    /\ \E p, q \in 1..2 : UpperLabelledAt(p) /\ LowerLabelledAt(q)

LowerConfidence ==
    IF LowerLabelledAt(1) THEN garments[1].confidence ELSE garments[2].confidence

OneOutfitFollowingLabels ==
    /\ Len(outfits) = 1
    /\ UpperLabelledAt(outfits[1].top.pos)
    /\ LowerLabelledAt(outfits[1].bottom.pos)
    /\ outfits[1].top.name = "A"
    /\ outfits[1].bottom.name = "B"
    /\ outfits[1].score \in 0..100

\* C13 as stated: a garment with only an upper label and a garment with
\* only a lower label always give exactly one outfit whose roles follow the
\* labels.
C13_AsClaimed == (Done /\ LabelsOnly) => OneOutfitFollowingLabels

\* C13: a garment with only an upper label and a garment with only a lower
\* label whose confidence is not zero give exactly one outfit, the upper
\* label on top and the lower label below, with a score between 0 and 1;
\* with a lower label of confidence zero there is still exactly one outfit.
C13_TwoGarments ==
    (Done /\ LabelsOnly) =>
        /\ Len(outfits) = 1
        /\ LowerConfidence # 0 => OneOutfitFollowingLabels

C13_Witness ==
    /\ Done
    /\ occasion = "formal"
    /\ garments = <<Garment(<<"A", 0, 0>>, <<"shirt", 95, "#1F3C88">>),
                    Garment(<<"B", 0, 0>>, <<"jeans", 90, "#000000">>)>>
    /\ Len(outfits) = 1
    /\ outfits[1].top.name = "A"
    /\ outfits[1].bottom.name = "B"
    /\ outfits[1].score = 70

(***************************************************************************)
(* Properties of pair-first generation (specification SpecPairFirst).      *)
(***************************************************************************)
Paired == pc = "paired"

NumPairs == (Len(garments) * (Len(garments) - 1)) \div 2

\* the two input positions of the i-th returned outfit
Positions(i) == {outfits[i].top.pos, outfits[i].bottom.pos}

\* C14: for two or more garments pair-first generation returns exactly
\* min(max_outfits, n(n-1)/2) outfits, at least one when max_outfits >= 1,
\* each from a different unordered pair of input positions and, when nothing
\* is cut off, one for every such pair; for fewer than two garments it
\* returns the empty list.
C14_PairFirstGuarantee ==
    Paired =>
        IF Len(garments) < 2 THEN outfits = <<>>
        ELSE /\ Len(outfits) = Min(max_outfits, NumPairs)
             /\ max_outfits >= 1 => Len(outfits) >= 1
             /\ \A i \in 1..Len(outfits) :
                    /\ Cardinality(Positions(i)) = 2
                    /\ Positions(i) \subseteq 1..Len(garments)
             /\ \A i, j \in 1..Len(outfits) :
                    Positions(i) = Positions(j) => i = j
             /\ max_outfits >= NumPairs =>
                    \A p, q \in 1..Len(garments) :
                        p < q => \E i \in 1..Len(outfits) : Positions(i) = {p, q}

\* three garments without any signal and with the same name, nothing cut off
C14_Witness ==
    /\ Paired
    /\ Len(garments) = 3
    /\ \A p \in 1..3 : garments[p] = Garment(<<"pants.jpg", 2, 3>>, <<"T-Shirt", 40, "#00FFFF">>)
    /\ max_outfits = 3
    /\ Len(outfits) = 3

\* C15 as stated: the upper and the lower item of every outfit returned by
\* pair-first generation have different identifiers.
C15_DifferentIdentifiers ==
    Paired => \A i \in 1..Len(outfits) : ItemId(outfits[i].top) # ItemId(outfits[i].bottom)

(***************************************************************************)
(* Properties of the process (specification SpecRepeat).                   *)
(***************************************************************************)
SameCall(a, b) ==
    /\ a.mode = b.mode
    /\ a.garments = b.garments
    /\ a.occasion = b.occasion
    /\ a.max_outfits = b.max_outfits

Alone(call) ==
    IF call.mode = "role_locked"
    THEN generate_role_locked_outfits(call.input, call.occasion, call.max_outfits)
    ELSE generate_pair_first_outfits(call.input, call.occasion, call.max_outfits)

Recommended == pc = "recommended"

\* the label as the alias table sees it
Labels == [g \in LegacyWardrobe \cup Closet |-> Lower(Strip(g.type))] @@ <<>>

Label(g) == Labels[g]

Gated(g) == g.confidence # NoConfidence /\ g.confidence < 70

LabelledTop(g) == ~Gated(g) /\ Label(g) \in TopAliases
LabelledBottom(g) == ~Gated(g) /\ Label(g) \in BottomAliases
LabelledDress(g) == ~Gated(g) /\ Label(g) = "dress"

TopAndBottom(o) ==
    /\ o.total_items = 2
    /\ Len(o.items) = 2
    /\ o.types = <<TOP, BOTTOM>>
    /\ LabelledTop(o.items[1])
    /\ LabelledBottom(o.items[2])

SingleDress(o) ==
    /\ o.total_items = 1
    /\ Len(o.items) = 1
    /\ o.types = <<DRESS>>
    /\ LabelledDress(o.items[1])

InAliasTable(g) == Label(g) \in TopAliases \cup BottomAliases \cup {"dress", "blazer"}

\* the garment is filed under the type its label stands for
FiledIn(list, g) == \E k \in 1..Len(list) : list[k].original = g

Filed(g) == FiledIn(separate_by_type(garments)[LegacyAlias(Label(g))], g)

InOutfit(g, o) == \E k \in 1..Len(o.items) : o.items[k] = g

\* C18: a garment with a confidence below 0.70 normalizes to unknown
\* whatever its label, is_valid_outfit rejects every list that contains it,
\* and no returned outfit contains it; a garment with a confidence of 0.70
\* or more, or none, and a label of the alias table normalizes to the type
\* of its label and is filed under it.
C18_ConfidenceGate ==
    /\ \A p \in 1..Len(garments) :
           /\ Gated(garments[p]) =>
                  normalize_garment_type(garments[p].type,
                                         LegacyConfidence(garments[p])) = UNKNOWN
           /\ (~Gated(garments[p]) /\ InAliasTable(garments[p])) =>
                  /\ normalize_garment_type(garments[p].type,
                                            LegacyConfidence(garments[p]))
                         = LegacyAlias(Label(garments[p]))
                  /\ LegacyAlias(Label(garments[p])) # UNKNOWN
                  /\ Filed(garments[p])
    /\ pc = "validated" =>
           ((\E p \in 1..Len(candidate) : Gated(candidate[p])) => verdict = <<FALSE>>)
    /\ Recommended =>
           \A p \in 1..Len(garments), i \in 1..Len(outfits) :
               Gated(garments[p]) => ~InOutfit(garments[p], outfits[i])

\* a T-shirt at 0.69 next to a top at exactly 0.70 and jeans: the only
\* outfit is the top at 0.70 with the jeans
C18_Witness ==
    /\ Recommended
    /\ garments = <<LegacyGarment("a", "T-Shirt", 69, "#1f3c88"),
                    LegacyGarment("b", "top", 70, "#ff0000"),
                    LegacyGarment("c", "Pants", 95, "#00FFFF")>>
    /\ Len(outfits) = 1
    /\ outfits[1].items = <<garments[2], garments[3]>>

(***************************************************************************)
(* Properties of the two recommenders on one list (specification           *)
(* SpecCompare).                                                           *)
(***************************************************************************)
AllNormalizeBottom ==
    \A p \in 1..Len(garments) :
        normalize_garment_type(garments[p].type, LegacyConfidence(garments[p])) = BOTTOM

RoleLocked(o) ==
    /\ o.top.type = "top" /\ o.top.role = "top"
    /\ o.bottom.type = "bottom" /\ o.bottom.role = "bottom"
    /\ o.top.pos # o.bottom.pos
    /\ {o.top.pos, o.bottom.pos} \subseteq 1..Len(garments)

\* C20 as stated: for two or more garments emergency_generate_outfits ends
\* without an exception and returns at least one outfit, each with a top and
\* a bottom from two different input positions; for fewer than two garments
\* it returns the empty list.
C20_EmergencyGuarantee ==
    pc = "emergency" =>
        IF Len(garments) < 2 THEN verdict = <<"returned">> /\ outfits = <<>>
        ELSE /\ verdict = <<"returned">>
             /\ Len(outfits) >= 1
             /\ \A i \in 1..Len(outfits) : RoleLocked(outfits[i])

(***************************************************************************)
(* The weighted vote of the resolver (specification SpecResolve).          *)
(***************************************************************************)
\* the role each of the four sources speaks for, UNKNOWN when it abstains
ShapeRole ==
    IF single.width > 0 /\ single.height > 0
    THEN (IF 10 * single.height > 12 * single.width THEN BOTTOM ELSE TOP)
    ELSE UNKNOWN

ShapeWeight ==
    IF 10 * single.height > 14 * single.width \/ single.height < single.width
    THEN 300 ELSE 150

\* per name and URL, and per label, worked out once
StructureRoles ==
    [x \in ResolveNames \X ResolveImages |->
        detect_structural_features(x[1], x[2])] @@ <<>>

FilenameRoles ==
    [x \in ResolveNames \X ResolveImages |->
        LET by_name == guess_type_from_filename(x[1])
        IN  IF by_name # UNKNOWN \/ x[2] = "" THEN by_name
            ELSE guess_type_from_filename(BeforeFirst(AfterLast(x[2], "/"), "?"))]
        @@ <<>>

LabelRoles == [t \in ResolveTypes |-> normalize_type(t)] @@ <<>>

StructureRole == StructureRoles[<<single.name, single.image>>]

FilenameRole == FilenameRoles[<<single.name, single.image>>]

LabelRole == LabelRoles[single.type]

LabelWeight ==
    IF single.confidence = NoConfidence THEN 50
    ELSE IF single.confidence > 100 THEN 100 ELSE single.confidence

\* the total of the weights that spoke for one role
Total(role) ==
    (IF ShapeRole = role THEN ShapeWeight ELSE 0)
    + (IF StructureRole = role THEN 250 ELSE 0)
    + (IF FilenameRole = role THEN 200 ELSE 0)
    + (IF LabelRole = role THEN LabelWeight ELSE 0)

Resolved == pc = "resolved"

DimensionsKnown == single.width > 0 /\ single.height > 0

\* C21: the resolver returns the role whose total weight (shape 3.0 or 1.5,
\* structural keyword 2.5, filename keyword 2.0, label min(confidence, 1.0)
\* with 0.5 for an absent confidence) is strictly higher; a source that
\* abstains adds to neither total.
C21_WeightedVote ==
    Resolved =>
        /\ Total(TOP) > Total(BOTTOM) => normalized[1].verified_type = TOP
        /\ Total(BOTTOM) > Total(TOP) => normalized[1].verified_type = BOTTOM
        /\ WeightOf(Signals(single, single.width, single.height), TOP) = Total(TOP)
        /\ WeightOf(Signals(single, single.width, single.height), BOTTOM)
               = Total(BOTTOM)

\* the strongest signal (shape, 3.0 for top) is outvoted by two weaker ones
\* (structure 2.5 and label 0.95 for bottom)
C21_Witness ==
    /\ Resolved
    /\ ShapeRole = TOP /\ ShapeWeight = 300
    /\ StructureRole = BOTTOM /\ FilenameRole = UNKNOWN
    /\ LabelRole = BOTTOM /\ LabelWeight = 95
    /\ normalized[1].verified_type = BOTTOM

\* C22: on equal totals the resolver returns the role the shape signal voted
\* for when the dimensions are known, and top when they are not.
C22_TieFollowsShape ==
    (Resolved /\ Total(TOP) = Total(BOTTOM)) =>
        normalized[1].verified_type = (IF DimensionsKnown THEN ShapeRole ELSE TOP)

\* C23: the shape signal votes bottom at 3.0 above 1.4, top at 3.0 below
\* 1.0, and in between at 1.5 for the role of the nearer boundary; without
\* positive dimensions it does not vote and the resolver still answers.
C23_ShapeSignal ==
    Resolved =>
        LET w == single.width
            h == single.height
            vote == ShapeSignal(w, h)
        IN  /\ ~DimensionsKnown => vote = <<>>
            /\ (DimensionsKnown /\ 10 * h > 14 * w) => vote = <<<<BOTTOM, 300>>>>
            /\ (DimensionsKnown /\ h < w) => vote = <<<<TOP, 300>>>>
            /\ (DimensionsKnown /\ h >= w /\ 10 * h <= 14 * w) =>
                   /\ Len(vote) = 1 /\ vote[1][2] = 150
                   \* nearer to 1.0: aspect - 1.0 < 1.4 - aspect
                   /\ 10 * h - 10 * w < 14 * w - 10 * h => vote[1][1] = TOP
                   /\ 10 * h - 10 * w > 14 * w - 10 * h => vote[1][1] = BOTTOM
            /\ normalized[1].verified_type \in {TOP, BOTTOM}
            \* with no other source the shape vote is the answer
            /\ (StructureRole = UNKNOWN /\ FilenameRole = UNKNOWN
                    /\ LabelRole = UNKNOWN /\ vote # <<>>) =>
                   normalized[1].verified_type = vote[1][1]

\* an aspect of 1.3, in the band and nearer to 1.4, with no other source
C23_Witness ==
    /\ Resolved
    /\ single.width = 10 /\ single.height = 13
    /\ StructureRole = UNKNOWN /\ FilenameRole = UNKNOWN /\ LabelRole = UNKNOWN
    /\ normalized[1].verified_type = BOTTOM

(***************************************************************************)
(* Fail-safe recovery of the splitter (specification Spec).                *)
(***************************************************************************)
\* the list a position ended in
FinalRole(p) == IF \E k \in 1..Len(bottoms) : bottoms[k].pos = p THEN BOTTOM ELSE TOP

\* the positions whose list is not the one the resolver chose
Reassigned == {p \in 1..Len(garments) : FinalRole(p) # RoleOf(p)}

PantScore(p) == PantLikeness[garments[p]]

\* the first position whose pant-likeness no other position exceeds
MostPantLike ==
    CHOOSE p \in 1..Len(garments) :
        /\ \A q \in 1..Len(garments) : PantScore(q) <= PantScore(p)
        /\ \A q \in 1..(p - 1) : PantScore(q) < PantScore(p)

\* the position recovery picks: the most pant-like one when its score is
\* above 0.1, the first one otherwise
Picked == IF PantScore(MostPantLike) > 10 THEN MostPantLike ELSE 1

\* the record the first pass built for the garment of a list entry
Untouched(n) == n = NormalizedGarment(garments[n.pos], n.pos)

InInputOrder(list) == \A i, j \in 1..Len(list) : i < j => list[i].pos < list[j].pos

\* a new record for the same garment: the role is bottom, the classifier's
\* type, the look, the color and the caller's dictionary are as resolved
ForcedCopy(n) ==
    /\ n.verified_type = BOTTOM
    /\ n.original = garments[n.pos]
    /\ [n EXCEPT !.verified_type = TOP, !.confidence = 0]
           = [NormalizedGarment(garments[n.pos], n.pos) EXCEPT !.confidence = 0]

OneTopForced ==
    /\ Reassigned = {Picked}
    /\ Len(bottoms) = 1 /\ bottoms[1].pos = Picked /\ ForcedCopy(bottoms[1])
    /\ \A k \in 1..Len(tops) : Untouched(tops[k])
    /\ InInputOrder(tops)

NothingForced ==
    /\ Reassigned = {}
    /\ \A k \in 1..Len(tops) : Untouched(tops[k])
    /\ \A k \in 1..Len(bottoms) : Untouched(bottoms[k])
    /\ InInputOrder(tops) /\ InInputOrder(bottoms)

NoSignalFires(g) ==
    /\ ~(g.width > 0 /\ g.height > 0)
    /\ detect_structural_features(g.name, g.image) = UNKNOWN
    /\ guess_type_from_filename(g.name) = UNKNOWN
    /\ g.image = ""
    /\ normalize_type(g.type) = UNKNOWN

TotalFailure == \A p \in 1..Len(garments) : NoSignalFires(garments[p])

\* the identifier the splitter gives the garment at position p
Identifier(p) ==
    IF garments[p].name # "" THEN garments[p].name ELSE "item_" \o ToString(p - 1)

DistinctIdentifiers ==
    \A p, q \in 1..Len(garments) : p # q => Identifier(p) # Identifier(q)

Source(item) == garments[item.pos]

Likeness(item) == TopLikeness[Source(item)]

\* C26: in every outfit of pair-first generation the upper item's
\* upper-likeness is at least the lower item's, so of two different scores
\* the higher is the upper item, and on equal scores the item of greater
\* height is the lower item.
C26_RolesByLikeness ==
    Paired =>
        \A i \in 1..Len(outfits) :
            /\ outfits[i].top.top_likeness = Likeness(outfits[i].top)
            /\ outfits[i].bottom.top_likeness = Likeness(outfits[i].bottom)
            /\ Likeness(outfits[i].top) >= Likeness(outfits[i].bottom)
            /\ Likeness(outfits[i].top) = Likeness(outfits[i].bottom) =>
                   Source(outfits[i].top).height <= Source(outfits[i].bottom).height

\* equal scores, and the taller garment, first in the list, is the lower item
C26_Witness ==
    /\ Paired /\ Len(outfits) >= 1
    /\ Likeness(outfits[1].top) = Likeness(outfits[1].bottom)
    /\ outfits[1].bottom.pos < outfits[1].top.pos
    /\ Source(outfits[1].bottom).height > Source(outfits[1].top).height

\* what STEP 4 sorts by: score + 0.3 * role_confidence, in hundred-thousandths
RankOf(o) == 1000 * o.score + 3 * Abs(Likeness(o.top) - Likeness(o.bottom))

\* C27 as claimed: the list is in descending order of score.
C27_ScoreDescending ==
    Paired =>
        \A i \in 1..(Len(outfits) - 1) : outfits[i].score >= outfits[i + 1].score

\* C27 as amended: the list is in descending order of
\* score + 0.3 * role_confidence, where role_confidence is the distance
\* between the two upper-likeness scores; between outfits of equal score
\* the one of greater role_confidence comes first.
C27_RankDescending ==
    Paired =>
        /\ \A i \in 1..Len(outfits) :
               outfits[i].role_confidence
                   = Abs(Likeness(outfits[i].top) - Likeness(outfits[i].bottom))
        /\ \A i \in 1..(Len(outfits) - 1) :
               /\ RankOf(outfits[i]) >= RankOf(outfits[i + 1])
               /\ outfits[i].score = outfits[i + 1].score =>
                      outfits[i].role_confidence >= outfits[i + 1].role_confidence

\* a more confidently resolved pair is ranked above a pair of higher score
C27_Witness ==
    /\ Paired
    /\ \E i \in 1..(Len(outfits) - 1) :
           /\ outfits[i].score < outfits[i + 1].score
           /\ outfits[i].role_confidence > outfits[i + 1].role_confidence

(***************************************************************************)
(* The label of the upstream classifier (specification SpecResolve).       *)
(***************************************************************************)
\* the label in lower case without "-", "_" and " "
Bare(label) == RemoveChar(RemoveChar(RemoveChar(Lower(label), "-"), "_"), " ")

\* the table entries the bare label is, and those it contains
EqualEntries ==
    [t \in ResolveTypes |->
        {i \in 1..Len(TYPE_ALIASES) : TYPE_ALIASES[i] = Bare(t)}] @@ <<>>

WithinEntries ==
    [t \in ResolveTypes |->
        {i \in 1..Len(TYPE_ALIASES) : Contains(Bare(t), TYPE_ALIASES[i])}] @@ <<>>

EntriesEqual(label) == EqualEntries[label]

EntriesWithin(label) == WithinEntries[label]

First(entries) == CHOOSE i \in entries : \A j \in entries : i <= j

\* what the resolver returns for the same garment without its label
WithoutLabel ==
    resolve_garment_type([single EXCEPT !.type = ""], single.width, single.height)

Abstains ==
    /\ normalized[1].type = UNKNOWN
    /\ normalized[1].verified_type = WithoutLabel

\* C28 as claimed: a label that is not an entry of the table abstains, and
\* the resolver answers as it does for an empty label; a label that is an
\* entry has the entry's role.
C28_NotAnEntryAbstains ==
    Resolved =>
        /\ EntriesEqual(single.type) = {} => Abstains
        /\ EntriesEqual(single.type) # {} =>
               normalized[1].type = AliasType(First(EntriesEqual(single.type)))

\* C28 as amended: a label that neither is nor contains an entry abstains,
\* and the resolver answers as it does for an empty label; a label that is
\* an entry has the entry's role; a label that is no entry but contains
\* one has the role of the first entry, in table order, that it contains.
C28_UnrecognizedAbstains ==
    Resolved =>
        /\ EntriesWithin(single.type) = {} => Abstains
        /\ EntriesEqual(single.type) # {} =>
               normalized[1].type = AliasType(First(EntriesEqual(single.type)))
        /\ (EntriesEqual(single.type) = {} /\ EntriesWithin(single.type) # {}) =>
               normalized[1].type = AliasType(First(EntriesWithin(single.type)))

\* an unrecognized label on a garment that other sources place at the bottom
C28_Witness ==
    /\ Resolved
    /\ single.type = "unknown_thing" /\ single.confidence = 95
    /\ normalized[1].type = UNKNOWN
    /\ normalized[1].verified_type = BOTTOM
    /\ WithoutLabel = BOTTOM

(***************************************************************************)
(* Malformed colors (specification SpecColor).                             *)
(***************************************************************************)
\* the color string after its "#": not six characters, or a character that
\* is no hex digit
Malformed(hex) ==
    \/ Len(LStrip(hex, "#")) # 6
    \/ \E k \in 1..Len(LStrip(hex, "#")) :
           HexDigitValue(CharAt(LStrip(hex, "#"), k)) = InvalidInt

CallEnded == pc \in {"done", "raised"}

\* the garment at position p is in a returned outfit, with a score
Scored(p) ==
    \E i \in 1..Len(outfits) :
        /\ p \in {outfits[i].top.pos, outfits[i].bottom.pos}
        /\ outfits[i].score \in 0..100
        /\ outfits[i].harmony # ""

\* C29: a color of wrong length or with a character that is no hex digit
\* converts to the fallback (0, 0, 0.5); a missing color becomes #808080;
\* a request with such a garment completes, and the garment is paired and
\* scored like any other.
C29_MalformedColorRecovered ==
    (CallEnded /\ Len(garments) >= 2) =>
        /\ pc = "done"
        /\ \A p \in 1..Len(garments) :
               Malformed(garments[p].hex) => hex_to_hsv(HexOf(garments[p])) = GrayHue
        /\ \A k \in 1..Len(tops) :
               tops[k].original.hex = "" => tops[k].hex_color = "#808080"
        /\ (Len(garments) = 2 /\ tops # <<>> /\ bottoms # <<>>) =>
               Scored(1) /\ Scored(2)

(***************************************************************************)
(* One role per garment across a result (specification Spec).              *)
(***************************************************************************)
\* the roles the garment at input position p has in the returned outfits
RolesIn(p) ==
    {"top" : i \in {k \in 1..Len(outfits) : outfits[k].top.pos = p}}
        \cup {"bottom" : i \in {k \in 1..Len(outfits) : outfits[k].bottom.pos = p}}

\* C30: in the list generate_role_locked_outfits returns, no input position
\* is the upper item of one outfit and the lower item of another: a garment
\* has one role in all the outfits it is in, the role of the list the
\* splitter put it in.
C30_OneRolePerGarment ==
    Done =>
        \A p \in 1..Len(garments) :
            /\ Cardinality(RolesIn(p)) <= 1
            /\ "top" \in RolesIn(p) => FinalRole(p) = TOP
            /\ "bottom" \in RolesIn(p) => FinalRole(p) = BOTTOM

\* two outfits share their lower item, a garment the resolver had made a
\* top and recovery forced to bottom
C30_Witness ==
    /\ Done /\ NoneResolvesLower
    /\ Len(outfits) = 2
    /\ outfits[1].bottom.pos = outfits[2].bottom.pos
    /\ outfits[1].top.pos # outfits[2].top.pos
    /\ RolesIn(outfits[1].bottom.pos) = {"bottom"}

====
